---- MODULE Spec2Model ----
(***************************************************************************)
(* iplist: an embedded IPv4 label database.  The model follows the Go      *)
(* sources: the builder (Build, readCIDRFileAsRanges,                      *)
(* validateNoOverlapDifferentLabel), the loader (parseV4v2, sliceFixed,    *)
(* detectDense, buildBuckets16), the table lookup (v4Table.lookup), the    *)
(* database lookups and the provider listing (rangeToCIDRs).               *)
(*                                                                         *)
(* Addresses are AddrBits wide instead of 32; every uint32 operation of    *)
(* the source wraps modulo 2^AddrBits here, and the bucket index uses the  *)
(* upper half of the address as the source uses the upper 16 bits.         *)
(***************************************************************************)
EXTENDS Integers, Sequences, FiniteSets, TLC

VARIABLES
    phase,  \* position of the run: which operation may come next
    tbl,    \* a v4Table: starts, ends, labels, dense, bucketLo16, bucketHi16
    dir,    \* the data directory: file name -> present, lines
    out,    \* what Build returned and the file it wrote
    db,     \* what Open returned: the typed views and the derived index
    call    \* the last API call: operation, argument, return value

vars == <<phase, tbl, dir, out, db, call>>

-----------------------------------------------------------------------------
(* Bounds *)

AddrBits == 4          \* width of an address word (32 in the source)
MaxN == 2              \* most intervals of a table drawn directly
MaxLines == 3          \* most CIDR lines of a data directory in SpecBuild
linearThreshold == 1   \* window size up to which lookup scans linearly (32 in the source)

-----------------------------------------------------------------------------
(* uint32 arithmetic, scaled *)

TwoW == 2^AddrBits
maxU32 == TwoW - 1
labelNone == maxU32
IDNone == maxU32
U32 == 0..maxU32

U32Of(x) == x % TwoW

\* x << k and x >> k on a uint32; a shift count >= the width gives 0 in Go
Shl(x, k) == IF k >= AddrBits THEN 0 ELSE U32Of(x * 2^k)
Shr(x, k) == IF k >= AddrBits THEN 0 ELSE x \div 2^k

\* cur & -cur: the lowest set bit, 0 for 0
RECURSIVE LowBit(_)
LowBit(x) == IF x = 0 THEN 0 ELSE IF x % 2 = 1 THEN 1 ELSE 2 * LowBit(x \div 2)

\* bits.TrailingZeros32, which is the width for 0
RECURSIVE TrailingZeros32(_)
TrailingZeros32(x) ==
    IF x = 0 THEN AddrBits ELSE IF x % 2 = 1 THEN 0 ELSE 1 + TrailingZeros32(x \div 2)

\* the bucket index is ip >> BucketShift (ip >> 16 in the source)
BucketShift == AddrBits - (AddrBits \div 2)
size == 2^(AddrBits - BucketShift)

Min(a, b) == IF a < b THEN a ELSE b
Max(a, b) == IF a > b THEN a ELSE b

\* arrays are 0-based in the source
At(s, i) == s[i + 1]

\* the four octets of an address: octet k is OctetBits(k) wide (8 in the source)
OctetBits(k) == (AddrBits \div 4) + (IF k < AddrBits % 4 THEN 1 ELSE 0)
RECURSIVE OctetShift(_)
OctetShift(k) == IF k >= 3 THEN 0 ELSE OctetBits(k + 1) + OctetShift(k + 1)

\* [4]byte{byte(ip >> 24), byte(ip >> 16), byte(ip >> 8), byte(ip)}
bytesOf(ip) == [k \in 1..4 |-> Shr(ip, OctetShift(k - 1)) % 2^OctetBits(k - 1)]

\* uint32(ip4[0])<<24 | uint32(ip4[1])<<16 | uint32(ip4[2])<<8 | uint32(ip4[3])
packU32(ip4) ==
    Shl(ip4[1], OctetShift(0)) + Shl(ip4[2], OctetShift(1))
        + Shl(ip4[3], OctetShift(2)) + ip4[4]

-----------------------------------------------------------------------------
(* v4Table *)

NilTable ==
    [starts |-> <<>>, ends |-> <<>>, labels |-> <<>>, dense |-> FALSE,
     bucketLo16 |-> <<>>, bucketHi16 |-> <<>>]

\* a variant of the scan without the test e == maxU32
RECURSIVE denseScanWrap(_, _)
denseScanWrap(t, i) ==
    IF i >= Len(t.starts) - 1 THEN TRUE
    ELSE IF U32Of(At(t.ends, i) + 1) # At(t.starts, i + 1) THEN FALSE
    ELSE denseScanWrap(t, i + 1)

\* the inner ends of a dense table: e != maxU32 and e+1 == starts[i+1]
RECURSIVE denseScan(_, _)
denseScan(t, i) ==
    IF i >= Len(t.starts) - 1 THEN TRUE
    ELSE IF At(t.ends, i) = maxU32 THEN FALSE
    ELSE IF U32Of(At(t.ends, i) + 1) # At(t.starts, i + 1) THEN FALSE
    ELSE denseScan(t, i + 1)

detectDense(t) ==
    IF Len(t.starts) = 0 THEN FALSE
    ELSE IF Len(t.starts) # Len(t.ends) \/ Len(t.starts) # Len(t.labels) THEN FALSE
    ELSE IF At(t.starts, 0) # 0 THEN FALSE
    ELSE IF ~denseScan(t, 0) THEN FALSE
    ELSE At(t.ends, Len(t.ends) - 1) = maxU32

\* the moving cursor: for i < n && arr[i] < key { i++ }
RECURSIVE cursor(_, _, _)
cursor(arr, i, key) ==
    IF i < Len(arr) /\ At(arr, i) < key THEN cursor(arr, i + 1, key) ELSE i

\* startGE[p] / endGE[p] for p in 0..size; key := uint32(p) << 16 wraps at p = size
RECURSIVE geAt(_, _)
geAt(arr, p) ==
    cursor(arr, IF p = 0 THEN 0 ELSE geAt(arr, p - 1), Shl(p, BucketShift))

bucketsLo(t) ==
    IF Len(t.starts) = 0 THEN <<>>
    ELSE [q \in 1..size |-> geAt(t.ends, q - 1)]

bucketsHi(t) ==
    IF Len(t.starts) = 0 THEN <<>>
    ELSE [q \in 1..size |-> geAt(t.starts, q)]

buildBuckets16(t) ==
    [t EXCEPT !.bucketLo16 = bucketsLo(t), !.bucketHi16 = bucketsHi(t)]

\* the end of a lookup once idx is found: the dense branch or the end check
hitAt(t, idx, ip) ==
    LET label == At(t.labels, idx) IN
    IF t.dense
    THEN IF label = labelNone THEN <<0, FALSE>> ELSE <<label, TRUE>>
    ELSE IF ip > At(t.ends, idx) THEN <<0, FALSE>> ELSE <<label, TRUE>>

\* for idx := hi - 1; idx >= lo; idx--
RECURSIVE linearScan(_, _, _, _)
linearScan(t, lo, idx, ip) ==
    IF idx < lo THEN <<0, FALSE>>
    ELSE IF At(t.starts, idx) > ip THEN linearScan(t, lo, idx - 1, ip)
    ELSE hitAt(t, idx, ip)

\* a variant of the search that also moves j down when starts[h] == ip
RECURSIVE binarySearchStrict(_, _, _, _)
binarySearchStrict(t, i, j, ip) ==
    IF i >= j THEN i
    ELSE LET h == (i + j) \div 2 IN
         IF At(t.starts, h) >= ip THEN binarySearchStrict(t, i, h, ip)
         ELSE binarySearchStrict(t, h + 1, j, ip)

\* for i < j { h := (i+j)>>1; if starts[h] > ip { j = h } else { i = h+1 } }
RECURSIVE binarySearch(_, _, _, _)
binarySearch(t, i, j, ip) ==
    IF i >= j THEN i
    ELSE LET h == (i + j) \div 2 IN
         IF At(t.starts, h) > ip THEN binarySearch(t, i, h, ip)
         ELSE binarySearch(t, h + 1, j, ip)

\* the branch taken when hi-lo <= linearThreshold
linearBranch(t, lo, hi, ip) == linearScan(t, lo, hi - 1, ip)

\* the branch taken otherwise: idx := i - 1 after the search
binaryBranch(t, lo, hi, ip) ==
    LET idx == binarySearch(t, lo, hi, ip) - 1 IN
    IF idx < lo THEN <<0, FALSE>> ELSE hitAt(t, idx, ip)

searchWindow(t, lo, hi, ip) ==
    IF hi - lo <= linearThreshold
    THEN linearBranch(t, lo, hi, ip)
    ELSE binaryBranch(t, lo, hi, ip)

\* lo and hi of a non-empty table: the bucket entries of ip >> 16 with hi
\* clamped to len(t.starts), or the whole table when there are no buckets
window(t, ip) ==
    IF t.bucketLo16 # <<>> /\ t.bucketHi16 # <<>>
    THEN <<At(t.bucketLo16, Shr(ip, BucketShift)),
           Min(At(t.bucketHi16, Shr(ip, BucketShift)), Len(t.starts))>>
    ELSE <<0, Len(t.starts)>>

lookup(t, ip) ==
    IF Len(t.starts) = 0 THEN <<0, FALSE>>
    ELSE IF window(t, ip)[1] >= window(t, ip)[2] THEN <<0, FALSE>>
    ELSE searchWindow(t, window(t, ip)[1], window(t, ip)[2], ip)

\* a variant of the scan that runs one index below lo
RECURSIVE linearReadsBelow(_, _, _, _)
linearReadsBelow(t, lo, idx, ip) ==
    IF idx < lo - 1 THEN {}
    ELSE IF idx < 0 \/ idx >= Len(t.starts) THEN {idx}
    ELSE IF At(t.starts, idx) > ip THEN {idx} \cup linearReadsBelow(t, lo, idx - 1, ip)
    ELSE {idx}

\* the indices the descending scan reads from starts, ends and labels
RECURSIVE linearReads(_, _, _, _)
linearReads(t, lo, idx, ip) ==
    IF idx < lo THEN {}
    ELSE IF idx < 0 \/ idx >= Len(t.starts) THEN {idx}
    ELSE IF At(t.starts, idx) > ip THEN {idx} \cup linearReads(t, lo, idx - 1, ip)
    ELSE {idx}

\* the indices h the binary search reads from starts
RECURSIVE binaryProbes(_, _, _, _)
binaryProbes(t, i, j, ip) ==
    IF i >= j THEN {}
    ELSE LET h == (i + j) \div 2 IN
         IF h < 0 \/ h >= Len(t.starts) THEN {h}
         ELSE IF At(t.starts, h) > ip THEN {h} \cup binaryProbes(t, i, h, ip)
         ELSE {h} \cup binaryProbes(t, h + 1, j, ip)

\* every index lookup reads from starts, ends and labels
lookupReads(t, ip) ==
    LET lo == window(t, ip)[1]
        hi == window(t, ip)[2]
    IN IF Len(t.starts) = 0 \/ lo >= hi THEN {}
       ELSE IF hi - lo <= linearThreshold THEN linearReads(t, lo, hi - 1, ip)
       ELSE binaryProbes(t, lo, hi, ip)
            \cup (IF binaryProbes(t, lo, hi, ip) \subseteq 0..(Len(t.starts) - 1)
                     /\ binarySearch(t, lo, hi, ip) - 1 >= lo
                  THEN {binarySearch(t, lo, hi, ip) - 1} ELSE {})

-----------------------------------------------------------------------------
(* rangeToCIDRs *)

\* a variant of the inner loop that never narrows the block to what remains
fitLenKeep(maxLen, remaining) == maxLen

\* for maxLen < 32 { blockSize := 1 << (32-maxLen); if blockSize <= remaining { break }; maxLen++ }
RECURSIVE fitLen(_, _)
fitLen(maxLen, remaining) ==
    IF maxLen < AddrBits /\ Shl(1, AddrBits - maxLen) > remaining
    THEN fitLen(maxLen + 1, remaining)
    ELSE maxLen

\* netip.PrefixFrom(netip.AddrFrom4(...), maxLen)
PrefixFrom(cur, maxLen) == [ip |-> bytesOf(cur), bits |-> maxLen]

\* the block size of the first prefix emitted at cur
firstLen(cur, end) ==
    LET lowBit == LowBit(cur)
        maxSize == IF lowBit = 0 THEN Shl(1, AddrBits - 1) ELSE lowBit
    IN fitLen(AddrBits - TrailingZeros32(maxSize), U32Of(end - cur + 1))

\* the loop for cur <= end { ... }; turns counts the iterations still allowed,
\* so that a loop that would not end shows as done = FALSE
RECURSIVE cidrLoop(_, _, _, _)
cidrLoop(cur, end, acc, turns) ==
    IF cur > end THEN [out |-> acc, err |-> FALSE, done |-> TRUE]
    ELSE IF turns = 0 THEN [out |-> acc, err |-> FALSE, done |-> FALSE]
    ELSE LET maxLen == firstLen(cur, end)
             step == Shl(1, AddrBits - maxLen)
             next == U32Of(cur + step)
             acc2 == Append(acc, PrefixFrom(cur, maxLen))
         IN IF step = 0 THEN [out |-> <<>>, err |-> TRUE, done |-> TRUE]
            ELSE IF next <= cur THEN [out |-> acc2, err |-> FALSE, done |-> TRUE]
            ELSE cidrLoop(next, end, acc2, turns - 1)

rangeToCIDRs(start, end) ==
    IF start > end THEN [out |-> <<>>, err |-> FALSE, done |-> TRUE]
    ELSE cidrLoop(start, end, <<>>, TwoW)

-----------------------------------------------------------------------------
(* The builder: readCIDRFileAsRanges, validateNoOverlapDifferentLabel, Build *)

magicV4 == "IPL4"
version2 == 2
headerSize == 64
secSize == 160

ProviderKindUnknown == 0
ProviderKindISP == 1
ProviderKindCloud == 2

HasSuffix(str, suffix) ==
    Len(str) >= Len(suffix) /\ SubSeq(str, Len(str) - Len(suffix) + 1, Len(str)) = suffix

\* a CIDR line of a source file, as text: the address octets and the prefix length
V4Line(ip, bits) == [kind |-> "v4", ip |-> bytesOf(ip), bits |-> bits]

\* a CIDR line in IPv4-mapped IPv6 form ::ffff:a.b.c.d/n, n counted over the
\* whole IPv6 address: the mapped prefix takes three quarters of it
MappedLine(ip, bits) ==
    [kind |-> "mapped", ip |-> bytesOf(ip), bits |-> 3 * AddrBits + bits]

\* net.ParseCIDR then the conversion to a closed range: the network address is
\* the written address with the host bits cleared (To4 keeps its last four
\* bytes), maskSize is counted over the mask as written, size := 1 << (32 -
\* uint32(maskSize)) (0 when the count is not below 32), end := start + size - 1
lineRange(line) ==
    LET written == packU32(line.ip)
        ipBits == IF line.kind = "mapped" THEN 4 * AddrBits ELSE AddrBits
        maskSize == line.bits
        start == written - (written % 2^(ipBits - maskSize))
        sz == Shl(1, U32Of(AddrBits - maskSize))
    IN [start |-> start, end |-> U32Of(start + sz - 1)]

\* the scan loop: blank lines and non-IPv4 networks are skipped, a malformed
\* line fails the file
RECURSIVE scanLines(_, _, _)
scanLines(lines, k, acc) ==
    IF k > Len(lines) THEN [err |-> "", out |-> acc]
    ELSE IF lines[k].kind = "blank" \/ lines[k].kind = "v6" THEN scanLines(lines, k + 1, acc)
    ELSE IF lines[k].kind = "bad" THEN [err |-> "parse CIDR", out |-> <<>>]
    ELSE scanLines(lines, k + 1, Append(acc, lineRange(lines[k])))

\* sort.Slice by a key on a short slice is an insertion sort: an element moves
\* left while its key is less than its left neighbour's
RECURSIVE insertBy(_, _, _)
insertBy(sorted, x, key) ==
    IF Len(sorted) = 0 THEN <<x>>
    ELSE IF x[key] < sorted[Len(sorted)][key]
    THEN Append(insertBy(SubSeq(sorted, 1, Len(sorted) - 1), x, key), sorted[Len(sorted)])
    ELSE Append(sorted, x)

RECURSIVE sortSlice(_, _, _, _)
sortSlice(s, k, acc, key) ==
    IF k > Len(s) THEN acc ELSE sortSlice(s, k + 1, insertBy(acc, s[k], key), key)

\* one step of the merge loop: cur joins last when cur.start <= last.end+1 (uint32)
mergeStep(merged, cur) ==
    IF Len(merged) = 0 THEN <<cur>>
    ELSE LET last == merged[Len(merged)] IN
         IF cur.start <= U32Of(last.end + 1)
         THEN IF cur.end > last.end
              THEN [merged EXCEPT ![Len(merged)].end = cur.end]
              ELSE merged
         ELSE Append(merged, cur)

RECURSIVE mergeRanges(_, _, _)
mergeRanges(sorted, k, merged) ==
    IF k > Len(sorted) THEN merged
    ELSE mergeRanges(sorted, k + 1, mergeStep(merged, sorted[k]))

readCIDRFileAsRanges(lines) ==
    LET scanned == scanLines(lines, 1, <<>>) IN
    IF scanned.err # "" THEN scanned
    ELSE [err |-> "",
          out |-> mergeRanges(sortSlice(scanned.out, 1, <<>>, "start"), 1, <<>>)]

\* "" when no consecutive pair overlaps with different labels
RECURSIVE validateNoOverlapDifferentLabel(_, _)
validateNoOverlapDifferentLabel(entries, i) ==
    IF i > Len(entries) THEN ""
    ELSE IF entries[i].Start <= entries[i - 1].End /\ entries[i].Label # entries[i - 1].Label
    THEN "overlap"
    ELSE validateNoOverlapDifferentLabel(entries, i + 1)

\* stringInterner.intern: the id of v, and the pool after the call
RECURSIVE indexOf(_, _, _)
indexOf(arr, v, k) ==
    IF k > Len(arr) THEN Len(arr) ELSE IF arr[k] = v THEN k - 1 ELSE indexOf(arr, v, k + 1)

internId(arr, v) == indexOf(arr, v, 1)
intern(arr, v) == IF internId(arr, v) < Len(arr) THEN arr ELSE Append(arr, v)

\* the docs-derived name tables are empty unless the generated file is compiled in
docsCountryName(code) == ""
docsCNCityName(code) == ""

\* the display names are kept by their byte length; the key's own text stands
\* for a name the source writes in another script
defaultProviderNames(key) ==
    IF key = "aliyun" THEN "aliyun:zh"
    ELSE IF key = "cernet" THEN "cernet:zh:name:"
    ELSE ""

defaultCloudSet ==
    {"aliyun", "tencent", "huawei", "microsoft", "cloudflare", "googlecloud",
     "digitalocean", "bytedance", "volcengine"}

\* the files of the data directory, per sub-directory in the order Glob lists them
CountryNames == <<"CN", "CHN", "US">>
CNCityNames == <<"440000", "440300", "440301">>
ProviderNames == <<"aliyun", "cernet">>

File(d, base) == <<d, base>>
Present(dirv, f) == f \in DOMAIN dirv /\ dirv[f].present
LinesOf(dirv, f) == dirv[f].lines

\* the builder's tables while the files are read
NewBuild ==
    [err |-> "", strs |-> <<>>,
     countryKeys |-> <<>>, countryLabels |-> <<>>,
     cnKeys |-> <<>>, cnLabels |-> <<>>,
     providerKeys |-> <<>>, providerLabels |-> <<>>,
     countryEntries |-> <<>>, cnProvEntries |-> <<>>, cnCityEntries |-> <<>>,
     providerEntries |-> <<>>]

withName(name, code) == IF name = "" THEN code ELSE name

\* getCountryLabel, getCNLabel: a new label interns its code and its name
getLabel2(b, keys, labels, code, name) ==
    IF internId(b[keys], code) < Len(b[keys]) THEN b
    ELSE LET s1 == intern(b.strs, code)
             s2 == intern(s1, name)
         IN [b EXCEPT ![keys] = Append(@, code),
                      ![labels] = Append(@, [Code |-> internId(s1, code),
                                             Name |-> internId(s2, name)]),
                      !.strs = s2]

getProviderLabel(b, key) ==
    IF internId(b.providerKeys, key) < Len(b.providerKeys) THEN b
    ELSE LET name == withName(defaultProviderNames(key), key)
             kind == IF key \in defaultCloudSet THEN ProviderKindCloud ELSE ProviderKindISP
             s1 == intern(b.strs, key)
             s2 == intern(s1, name)
         IN [b EXCEPT !.providerKeys = Append(@, key),
                      !.providerLabels = Append(@, [Key |-> internId(s1, key),
                                                    Name |-> internId(s2, name),
                                                    Kind |-> kind]),
                      !.strs = s2]

tagged(rs, label) == [k \in 1..Len(rs) |-> [Start |-> rs[k].start, End |-> rs[k].end, Label |-> label]]

addEntries(b, field, rs, label) == [b EXCEPT ![field] = @ \o tagged(rs, label)]

\* the body of the loop over country/*.txt
countryFile(b, dirv, base) ==
    IF Len(base) # 2 THEN b
    ELSE LET b1 == getLabel2(b, "countryKeys", "countryLabels", base,
                             withName(docsCountryName(base), base))
             label == internId(b1.countryKeys, base)
             rs == readCIDRFileAsRanges(LinesOf(dirv, File("country", base)))
         IN IF rs.err # "" THEN [b1 EXCEPT !.err = rs.err]
            ELSE addEntries(b1, "countryEntries", rs.out, label)

\* the body of the loop over cncity/*.txt
cncityFile(b, dirv, code) ==
    IF Len(code) # 6 THEN b
    ELSE LET b1 == getLabel2(b, "cnKeys", "cnLabels", code,
                             withName(docsCNCityName(code), code))
             label == internId(b1.cnKeys, code)
             rs == readCIDRFileAsRanges(LinesOf(dirv, File("cncity", code)))
             isProv == HasSuffix(code, "0000")
             isCity == HasSuffix(code, "00") /\ ~isProv
         IN IF rs.err # "" THEN [b1 EXCEPT !.err = rs.err]
            ELSE IF ~isProv /\ ~isCity THEN b1
            ELSE IF isCity THEN addEntries(b1, "cnCityEntries", rs.out, label)
            ELSE addEntries(b1, "cnProvEntries", rs.out, label)

\* the body of the loop over isp/*.txt
providerFile(b, dirv, key) ==
    LET b1 == getProviderLabel(b, key)
        label == internId(b1.providerKeys, key)
        rs == readCIDRFileAsRanges(LinesOf(dirv, File("isp", key)))
    IN IF rs.err # "" THEN [b1 EXCEPT !.err = rs.err]
       ELSE addEntries(b1, "providerEntries", rs.out, label)

fileBody(b, dirv, d, base) ==
    IF d = "country" THEN countryFile(b, dirv, base)
    ELSE IF d = "cncity" THEN cncityFile(b, dirv, base)
    ELSE providerFile(b, dirv, base)

\* for _, p := range files { ... }: Build returns at the first file that fails
RECURSIVE eachFile(_, _, _, _, _)
eachFile(b, dirv, d, names, k) ==
    IF b.err # "" \/ k > Len(names) THEN b
    ELSE IF ~Present(dirv, File(d, names[k])) THEN eachFile(b, dirv, d, names, k + 1)
    ELSE eachFile(fileBody(b, dirv, d, names[k]), dirv, d, names, k + 1)

readAll(dirv) ==
    LET b1 == eachFile(NewBuild, dirv, "country", CountryNames, 1)
        b2 == eachFile(b1, dirv, "cncity", CNCityNames, 1)
    IN eachFile(b2, dirv, "isp", ProviderNames, 1)

sortEntries(entries) == sortSlice(entries, 1, <<>>, "Start")

\* the four sorts and the four validations, in the order of Build
sortAndValidate(b) ==
    LET c == [b EXCEPT !.countryEntries = sortEntries(@),
                       !.cnProvEntries = sortEntries(@),
                       !.cnCityEntries = sortEntries(@),
                       !.providerEntries = sortEntries(@)]
    IN IF validateNoOverlapDifferentLabel(c.countryEntries, 2) # ""
       THEN [c EXCEPT !.err = "country: overlap"]
       ELSE IF validateNoOverlapDifferentLabel(c.cnProvEntries, 2) # ""
       THEN [c EXCEPT !.err = "cn province: overlap"]
       ELSE IF validateNoOverlapDifferentLabel(c.cnCityEntries, 2) # ""
       THEN [c EXCEPT !.err = "cn city: overlap"]
       ELSE IF validateNoOverlapDifferentLabel(c.providerEntries, 2) # ""
       THEN [c EXCEPT !.err = "provider: overlap"]
       ELSE c

\* a byte is kept as <<"n", value>> when it was written as part of a number
\* and as <<"c", character>> when it was written as part of a string
\* n as width little-endian bytes, and back
putLE(n, width) == [k \in 1..width |-> <<"n", (n \div 256^(k - 1)) % 256>>]
RECURSIVE getLE(_, _, _)
getLE(b, pos, width) ==
    IF width = 0 THEN 0 ELSE At(b, pos)[2] + 256 * getLE(b, pos + 1, width - 1)

\* []byte(str): one element per byte of the string
bytesOfString(v) == [k \in 1..Len(v) |-> <<"c", SubSeq(v, k, k)>>]

\* stringInterner.encode: uint32(len(arr)), then uint16(len(b)) and the bytes
\* of each string
RECURSIVE encodeFrom(_, _)
encodeFrom(arr, k) ==
    IF k > Len(arr) THEN <<>>
    ELSE putLE(Len(arr[k]) % 2^16, 2) \o bytesOfString(arr[k]) \o encodeFrom(arr, k + 1)
encode(arr) == putLE(Len(arr), 4) \o encodeFrom(arr, 1)

\* the length of the encoded pool
RECURSIVE recordsSize(_, _)
recordsSize(arr, k) == IF k > Len(arr) THEN 0 ELSE 2 + Len(arr[k]) + recordsSize(arr, k + 1)
encodedSize(arr) == 4 + recordsSize(arr, 1)

\* label2 is two words, providerLabel three
flatLabel2(labels) ==
    [k \in 1..(2 * Len(labels)) |->
        IF k % 2 = 1 THEN labels[(k + 1) \div 2].Code ELSE labels[k \div 2].Name]
flatProviderLabel(labels) ==
    [k \in 1..(3 * Len(labels)) |->
        LET l == labels[(k + 2) \div 3] IN
        IF k % 3 = 1 THEN l.Key ELSE IF k % 3 = 2 THEN l.Name ELSE l.Kind]

splitEntries(entries) ==
    [starts |-> [k \in 1..Len(entries) |-> entries[k].Start],
     ends |-> [k \in 1..Len(entries) |-> entries[k].End],
     labels |-> [k \in 1..Len(entries) |-> entries[k].Label]]

\* the buffer after the section header: its length in bytes and the words
\* written behind the section header
\* writeFixed, writeU32Slice: off is the buffer length before the write
writeWords(buf, words) == [len |-> buf.len + 4 * Len(words), words |-> buf.words \o words]

\* a variant of the alignment step that writes no padding
padNone(n) == 0

\* -buf.Len() & 7
pad8(n) == (8 - (n % 8)) % 8

\* the bytes Build hands to os.WriteFile, kept as the header fields, the string
\* pool, the section header fields and the words that follow it
emit(b) ==
    LET stringsOff == headerSize
        stringsSize == encodedSize(b.strs)
        secOff == stringsOff + stringsSize + pad8(stringsOff + stringsSize)
        b0 == [len |-> secOff + secSize, words |-> <<>>]
        b1 == writeWords(b0, flatLabel2(b.countryLabels))
        b2 == writeWords(b1, flatLabel2(b.cnLabels))
        b3 == writeWords(b2, flatProviderLabel(b.providerLabels))
        co == splitEntries(b.countryEntries)
        pr == splitEntries(b.cnProvEntries)
        ci == splitEntries(b.cnCityEntries)
        pv == splitEntries(b.providerEntries)
        c1 == writeWords(b3, co.starts)
        c2 == writeWords(c1, co.ends)
        c3 == writeWords(c2, co.labels)
        p1 == writeWords(c3, pr.starts)
        p2 == writeWords(p1, pr.ends)
        p3 == writeWords(p2, pr.labels)
        y1 == writeWords(p3, ci.starts)
        y2 == writeWords(y1, ci.ends)
        y3 == writeWords(y2, ci.labels)
        v1 == writeWords(y3, pv.starts)
        v2 == writeWords(v1, pv.ends)
        v3 == writeWords(v2, pv.labels)
    IN [magic |-> magicV4, version |-> version2,
        stringsOff |-> stringsOff, stringsSize |-> stringsSize, strings |-> b.strs,
        secOff |-> secOff, secSize |-> secSize,
        sec |-> <<b0.len, Len(b.countryLabels), b1.len, Len(b.cnLabels),
                  b2.len, Len(b.providerLabels),
                  b3.len, c1.len, c2.len, Len(co.starts),
                  c3.len, p1.len, p2.len, Len(pr.starts),
                  p3.len, y1.len, y2.len, Len(ci.starts),
                  y3.len, v1.len, v2.len, Len(pv.starts)>>,
        bodyOff |-> b0.len, words |-> v3.words, size |-> v3.len]

NoFile == [size |-> 0]

\* Build: read and merge every file, sort and validate the four tables, write
\* the file; nothing is written when a step fails
Build(dirv) ==
    LET b == readAll(dirv) IN
    IF b.err # "" THEN [err |-> b.err, file |-> NoFile]
    ELSE LET c == sortAndValidate(b) IN
         IF c.err # "" THEN [err |-> c.err, file |-> NoFile]
         ELSE [err |-> "", file |-> emit(c)]

-----------------------------------------------------------------------------
(* The loader: open, parseV4, parseV4v2, sliceFixed *)

\* the words of a file at a byte offset
wordsAt(file, off, count) ==
    [k \in 1..count |-> file.words[(off - file.bodyOff) \div 4 + k]]

\* sliceFixed[T](b, off, count) for a T of sz bytes; &b[off] faults when off is
\* not an index of b, which the checks before it let through for off = len(b)
sliceFixed(file, off, count, sz) ==
    IF off < 0 \/ count < 0 THEN [st |-> "ErrInvalidDB", v |-> <<>>]
    ELSE IF off = 0 /\ count = 0 THEN [st |-> "ok", v |-> <<>>]
    ELSE IF off <= 0 \/ off + sz * count > file.size THEN [st |-> "ErrInvalidDB", v |-> <<>>]
    ELSE IF off >= file.size THEN [st |-> "panic", v |-> <<>>]
    ELSE [st |-> "ok", v |-> wordsAt(file, off, (sz \div 4) * count)]

label2Of(words) ==
    [k \in 1..(Len(words) \div 2) |-> [Code |-> words[2 * k - 1], Name |-> words[2 * k]]]
providerLabelOf(words) ==
    [k \in 1..(Len(words) \div 3) |->
        [Key |-> words[3 * k - 2], Name |-> words[3 * k - 1], Kind |-> words[3 * k]]]

\* b[stringsOff : stringsOff+stringsSize] of a file whose strings span begins
\* where Build put it: the encoded pool, cut at stringsSize; the bytes of the
\* file after the pool are left out, since every record ends inside the pool
stringsSpan(file) ==
    SubSeq(encode(file.strings), 1, Min(file.stringsSize, encodedSize(file.strings)))

\* the loop of parseStringsTable over the records
RECURSIVE parseRecords(_, _, _, _, _)
parseRecords(b, left, pos, start, end) ==
    IF left = 0 THEN [err |-> "", data |-> b, start |-> start, end |-> end]
    ELSE IF pos + 2 > Len(b) THEN [err |-> "ErrInvalidDB"]
    ELSE IF pos + 2 + getLE(b, pos, 2) > Len(b) THEN [err |-> "ErrInvalidDB"]
    ELSE parseRecords(b, left - 1, pos + 2 + getLE(b, pos, 2),
                      Append(start, pos + 2), Append(end, pos + 2 + getLE(b, pos, 2)))

\* parseStringsTable: the count, then one length-prefixed record per string,
\* each of which must end inside b
parseStringsTable(b) ==
    IF Len(b) < 4 THEN [err |-> "ErrInvalidDB"]
    ELSE parseRecords(b, getLE(b, 0, 4), 4, <<>>, <<>>)

\* unsafe.String over bytes; the byte of a number reads as a character of its
\* own, written # and the value
RECURSIVE stringOfBytes(_)
stringOfBytes(bs) ==
    IF bs = <<>> THEN ""
    ELSE (IF bs[1][1] = "c" THEN bs[1][2] ELSE "#" \o ToString(bs[1][2]))
         \o stringOfBytes(Tail(bs))

\* a variant of str that reads from lo to the end of the data
strToEnd(v, i) ==
    IF i >= Len(v.stringsStart) THEN ""
    ELSE stringOfBytes(SubSeq(v.stringsData, At(v.stringsStart, i) + 1, Len(v.stringsData)))

\* v4DB.str
str(v, i) ==
    IF i >= Len(v.stringsStart) THEN ""
    ELSE LET lo == At(v.stringsStart, i)
             hi == At(v.stringsEnd, i)
         IN IF lo > hi \/ hi > Len(v.stringsData) THEN ""
            ELSE stringOfBytes(SubSeq(v.stringsData, lo + 1, hi))

countryLabel(v, idx) ==
    IF idx >= Len(v.countryLabels) THEN [code |-> "", name |-> ""]
    ELSE [code |-> str(v, At(v.countryLabels, idx).Code),
          name |-> str(v, At(v.countryLabels, idx).Name)]

cnLabel(v, idx) ==
    IF idx >= Len(v.cnLabels) THEN [code |-> "", name |-> ""]
    ELSE [code |-> str(v, At(v.cnLabels, idx).Code),
          name |-> str(v, At(v.cnLabels, idx).Name)]

providerLabel(v, idx) ==
    IF idx >= Len(v.providerLabels) THEN [key |-> "", name |-> "", kind |-> ProviderKindUnknown]
    ELSE [key |-> str(v, At(v.providerLabels, idx).Key),
          name |-> str(v, At(v.providerLabels, idx).Name),
          kind |-> At(v.providerLabels, idx).Kind]

\* the loop that fills providerByKey: a later label of the same key wins
providerKeys(v) == {str(v, v.providerLabels[k].Key) : k \in 1..Len(v.providerLabels)}
providerByKey(v) ==
    [key \in providerKeys(v) |->
        (CHOOSE k \in 1..Len(v.providerLabels) :
            /\ str(v, v.providerLabels[k].Key) = key
            /\ \A m \in 1..Len(v.providerLabels) :
                  str(v, v.providerLabels[m].Key) = key => m <= k) - 1]

tableView(s, e, l) ==
    [NilTable EXCEPT !.starts = s.v, !.ends = e.v, !.labels = l.v]

parityOK(t) == Len(t.starts) = Len(t.ends) /\ Len(t.starts) = Len(t.labels)

indexTable(t) == buildBuckets16([t EXCEPT !.dense = detectDense(t)])

RECURSIVE firstBad(_, _)
firstBad(rs, k) ==
    IF k > Len(rs) THEN "ok" ELSE IF rs[k].st # "ok" THEN rs[k].st ELSE firstBad(rs, k + 1)

\* the bytes of the section header that readU32/readCnt read: sec[off:off+4]
\* up to off = 84 is cut from b[secOff:], so it faults when b ends before it
secFields == 88

\* parseV4v2 on a little-endian host: the views in the order they are sliced,
\* the length checks, the derived index, the provider key map
parseV4v2(file) ==
    IF file.secOff <= 0 \/ file.secSize <= 0 \/ file.secOff + file.secSize > file.size
    THEN [status |-> "ErrInvalidDB"]
    ELSE IF file.secOff + secFields > file.size THEN [status |-> "panic"]
    ELSE LET f == file.sec
             rs == << sliceFixed(file, f[1], f[2], 8),
                      sliceFixed(file, f[3], f[4], 8),
                      sliceFixed(file, f[5], f[6], 12),
                      sliceFixed(file, f[7], f[10], 4),
                      sliceFixed(file, f[8], f[10], 4),
                      sliceFixed(file, f[9], f[10], 4),
                      sliceFixed(file, f[11], f[14], 4),
                      sliceFixed(file, f[12], f[14], 4),
                      sliceFixed(file, f[13], f[14], 4),
                      sliceFixed(file, f[15], f[18], 4),
                      sliceFixed(file, f[16], f[18], 4),
                      sliceFixed(file, f[17], f[18], 4),
                      sliceFixed(file, f[19], f[22], 4),
                      sliceFixed(file, f[20], f[22], 4),
                      sliceFixed(file, f[21], f[22], 4) >>
             bad == firstBad(rs, 1)
         IN IF bad # "ok" THEN [status |-> bad]
            ELSE LET st == parseStringsTable(stringsSpan(file))
                     v == [stringsData |-> st.data,
                           stringsStart |-> st.start,
                           stringsEnd |-> st.end,
                           countryLabels |-> label2Of(rs[1].v),
                           cnLabels |-> label2Of(rs[2].v),
                           providerLabels |-> providerLabelOf(rs[3].v),
                           country |-> tableView(rs[4], rs[5], rs[6]),
                           cnProv |-> tableView(rs[7], rs[8], rs[9]),
                           cnCity |-> tableView(rs[10], rs[11], rs[12]),
                           provider |-> tableView(rs[13], rs[14], rs[15])]
                 IN IF ~(parityOK(v.country) /\ parityOK(v.cnProv)
                            /\ parityOK(v.cnCity) /\ parityOK(v.provider))
                    THEN [status |-> "ErrInvalidDB"]
                    ELSE IF "" \in providerKeys(v) THEN [status |-> "ErrInvalidDB"]
                    ELSE [status |-> "ok",
                          v4 |-> [v EXCEPT !.country = indexTable(@),
                                           !.cnProv = indexTable(@),
                                           !.cnCity = indexTable(@),
                                           !.provider = indexTable(@)],
                          providerByKey |-> providerByKey(v)]

parseV4(file) ==
    IF file.size < headerSize THEN [status |-> "ErrInvalidDB"]
    ELSE IF file.magic # magicV4 THEN [status |-> "ErrInvalidDB"]
    ELSE IF file.version # version2 THEN [status |-> "ErrInvalidDB"]
    ELSE IF file.stringsOff <= 0 \/ file.stringsSize <= 0
            \/ file.stringsOff + file.stringsSize > file.size
    THEN [status |-> "ErrInvalidDB"]
    ELSE IF parseStringsTable(stringsSpan(file)).err # "" THEN [status |-> "ErrInvalidDB"]
    ELSE parseV4v2(file)

\* open: the size check, then the parse of the mapping
open(file) ==
    IF file.size < headerSize THEN [status |-> "ErrInvalidDB"] ELSE parseV4(file)

\* swapU32Words on the mapping, which mmapFile maps PROT_READ: the first store
\* of the swap loop faults; no store is made when there is no word to swap
swapU32Words(file, off, count) ==
    IF off < 0 \/ count < 0 THEN "ErrInvalidDB"
    ELSE IF off = 0 /\ count = 0 THEN "ok"
    ELSE IF off <= 0 \/ off + 4 * count > file.size THEN "ErrInvalidDB"
    ELSE IF off < off + 4 * count THEN "fault"
    ELSE "ok"

\* swapFixedTablesLEToHost: the fifteen arrays in the order they are swapped
swapFixedTablesLEToHost(file) ==
    LET f == file.sec
        rs == << swapU32Words(file, f[1], f[2] * 2),
                 swapU32Words(file, f[3], f[4] * 2),
                 swapU32Words(file, f[5], f[6] * 3),
                 swapU32Words(file, f[7], f[10]),
                 swapU32Words(file, f[8], f[10]),
                 swapU32Words(file, f[9], f[10]),
                 swapU32Words(file, f[11], f[14]),
                 swapU32Words(file, f[12], f[14]),
                 swapU32Words(file, f[13], f[14]),
                 swapU32Words(file, f[15], f[18]),
                 swapU32Words(file, f[16], f[18]),
                 swapU32Words(file, f[17], f[18]),
                 swapU32Words(file, f[19], f[22]),
                 swapU32Words(file, f[20], f[22]),
                 swapU32Words(file, f[21], f[22]) >>
    IN firstBad([k \in 1..Len(rs) |-> [st |-> rs[k]]], 1)

\* open on a host whose byte order is given: the header checks of parseV4, the
\* section check of parseV4v2, the swap when the host is big-endian, the views
openOn(file, nativeLittleEndian) ==
    IF nativeLittleEndian THEN open(file)
    ELSE IF file.size < headerSize \/ file.magic # magicV4 \/ file.version # version2
    THEN [status |-> "ErrInvalidDB"]
    ELSE IF file.stringsOff <= 0 \/ file.stringsSize <= 0
            \/ file.stringsOff + file.stringsSize > file.size
    THEN [status |-> "ErrInvalidDB"]
    ELSE IF parseStringsTable(stringsSpan(file)).err # "" THEN [status |-> "ErrInvalidDB"]
    ELSE IF file.secOff <= 0 \/ file.secSize <= 0 \/ file.secOff + file.secSize > file.size
    THEN [status |-> "ErrInvalidDB"]
    ELSE IF file.secOff + secFields > file.size THEN [status |-> "panic"]
    ELSE IF swapFixedTablesLEToHost(file) # "ok"
    THEN [status |-> swapFixedTablesLEToHost(file)]
    ELSE parseV4v2(file)

-----------------------------------------------------------------------------
(* The query API: Result, ResultIDs, the lookups, the provider enumeration *)

\* netip.Addr: the zero Addr, an IPv4 address, an IPv6 address
ZeroAddr == [kind |-> "zero", b |-> <<>>]
AddrFrom4(ip4) == [kind |-> "v4", b |-> ip4]
AddrV6 == [kind |-> "v6", b |-> <<>>]
Is4(addr) == addr.kind = "v4"
As4(addr) == addr.b

\* the zero values Result{} and ResultIDs{}
ZeroResult ==
    [IP |-> ZeroAddr, CountryCode |-> "", CountryName |-> "",
     CNProvinceCode |-> "", CNProvinceName |-> "", CNCityCode |-> "", CNCityName |-> "",
     ProviderKey |-> "", ProviderName |-> "", ProviderKind |-> 0]
ZeroResultIDs ==
    [IP |-> ZeroAddr, CountryID |-> 0, CNProvinceID |-> 0, CNCityID |-> 0,
     ProviderID |-> 0, ProviderKind |-> 0]

\* a variant of clearResult that leaves the provider fields as they were
clearResultKeepProvider(dst) ==
    [dst EXCEPT !.IP = ZeroAddr, !.CountryCode = "", !.CountryName = "",
                !.CNProvinceCode = "", !.CNProvinceName = "",
                !.CNCityCode = "", !.CNCityName = ""]

clearResult(dst) ==
    [dst EXCEPT !.IP = ZeroAddr, !.CountryCode = "", !.CountryName = "",
                !.CNProvinceCode = "", !.CNProvinceName = "",
                !.CNCityCode = "", !.CNCityName = "",
                !.ProviderKey = "", !.ProviderName = "",
                !.ProviderKind = ProviderKindUnknown]

clearResultIDs(dst) ==
    [dst EXCEPT !.IP = ZeroAddr, !.CountryID = IDNone, !.CNProvinceID = IDNone,
                !.CNCityID = IDNone, !.ProviderID = IDNone,
                !.ProviderKind = ProviderKindUnknown]

\* a variant of the CN step that reports the province next to the city
cnIntoBoth(v, ip, dst) ==
    LET city == lookup(v.cnCity, ip)
        prov == lookup(v.cnProv, ip)
        d1 == IF city[2]
              THEN [dst EXCEPT !.CNCityCode = cnLabel(v, city[1]).code,
                               !.CNCityName = cnLabel(v, city[1]).name]
              ELSE dst
    IN IF prov[2]
       THEN [d1 EXCEPT !.CNProvinceCode = cnLabel(v, prov[1]).code,
                       !.CNProvinceName = cnLabel(v, prov[1]).name]
       ELSE d1

\* the CN step of lookupIntoU32: the city table first, the province table
\* only when the city table misses
cnInto(v, ip, dst) ==
    LET city == lookup(v.cnCity, ip)
        prov == lookup(v.cnProv, ip)
    IN IF city[2]
       THEN [dst EXCEPT !.CNCityCode = cnLabel(v, city[1]).code,
                        !.CNCityName = cnLabel(v, city[1]).name]
       ELSE IF prov[2]
       THEN [dst EXCEPT !.CNProvinceCode = cnLabel(v, prov[1]).code,
                        !.CNProvinceName = cnLabel(v, prov[1]).name]
       ELSE dst

lookupIntoU32(v, ip, dst) ==
    LET c == lookup(v.country, ip)
        p == lookup(v.provider, ip)
        d1 == IF c[2]
              THEN [dst EXCEPT !.CountryCode = countryLabel(v, c[1]).code,
                               !.CountryName = countryLabel(v, c[1]).name]
              ELSE dst
        d2 == cnInto(v, ip, d1)
        d3 == IF p[2]
              THEN [d2 EXCEPT !.ProviderKey = providerLabel(v, p[1]).key,
                              !.ProviderName = providerLabel(v, p[1]).name,
                              !.ProviderKind = providerLabel(v, p[1]).kind]
              ELSE d2
    IN [dst |-> d3, err |-> "",
        matched |-> c[2] \/ lookup(v.cnCity, ip)[2] \/ lookup(v.cnProv, ip)[2] \/ p[2]]

\* a variant of lookupInto that packs the octets in the opposite order
lookupIntoReversed(v, addr, dst) ==
    lookupIntoU32(v, packU32(<<As4(addr)[4], As4(addr)[3], As4(addr)[2], As4(addr)[1]>>), dst)

\* As4, then the packing a<<24 | b<<16 | c<<8 | d
lookupInto(v, addr, dst) == lookupIntoU32(v, packU32(As4(addr)), dst)

\* the CN step of lookupIDsIntoU32
cnIDsInto(v, ip, dst) ==
    LET city == lookup(v.cnCity, ip)
        prov == lookup(v.cnProv, ip)
    IN IF city[2] THEN [dst EXCEPT !.CNCityID = city[1]]
       ELSE IF prov[2] THEN [dst EXCEPT !.CNProvinceID = prov[1]]
       ELSE dst

lookupIDsIntoU32(v, ip, dst) ==
    LET c == lookup(v.country, ip)
        p == lookup(v.provider, ip)
        d1 == IF c[2] THEN [dst EXCEPT !.CountryID = c[1]] ELSE dst
        d2 == cnIDsInto(v, ip, d1)
        d3 == IF ~p[2] THEN d2
              ELSE IF p[1] < Len(v.providerLabels)
              THEN [d2 EXCEPT !.ProviderID = p[1],
                              !.ProviderKind = At(v.providerLabels, p[1]).Kind]
              ELSE [d2 EXCEPT !.ProviderID = p[1]]
    IN [dst |-> d3, err |-> "",
        matched |-> c[2] \/ lookup(v.cnCity, ip)[2] \/ lookup(v.cnProv, ip)[2] \/ p[2]]

lookupIDsInto(v, addr, dst) == lookupIDsIntoU32(v, packU32(As4(addr)), dst)

\* a nil destination pointer
NilDst == [nil |-> TRUE]

LookupAddrInto(d, addr, dst) ==
    IF d.status # "ok" THEN [dst |-> dst, matched |-> FALSE, err |-> "ErrInvalidDB"]
    ELSE IF dst = NilDst THEN [dst |-> dst, matched |-> FALSE, err |-> "ErrNilResult"]
    ELSE IF ~Is4(addr)
    THEN [dst |-> clearResult(dst), matched |-> FALSE, err |-> "ErrUnsupportedIP"]
    ELSE lookupInto(d.v4, addr, [clearResult(dst) EXCEPT !.IP = addr])

LookupAddrIDsInto(d, addr, dst) ==
    IF d.status # "ok" THEN [dst |-> dst, matched |-> FALSE, err |-> "ErrInvalidDB"]
    ELSE IF dst = NilDst THEN [dst |-> dst, matched |-> FALSE, err |-> "ErrNilResult"]
    ELSE IF ~Is4(addr)
    THEN [dst |-> clearResultIDs(dst), matched |-> FALSE, err |-> "ErrUnsupportedIP"]
    ELSE lookupIDsInto(d.v4, addr, [clearResultIDs(dst) EXCEPT !.IP = addr])

LookupIPv4Uint32Into(d, ip, dst) ==
    IF d.status # "ok" THEN [dst |-> dst, matched |-> FALSE, err |-> "ErrInvalidDB"]
    ELSE IF dst = NilDst THEN [dst |-> dst, matched |-> FALSE, err |-> "ErrNilResult"]
    ELSE lookupIntoU32(d.v4, ip, clearResult(dst))

LookupIPv4Uint32IDsInto(d, ip, dst) ==
    IF d.status # "ok" THEN [dst |-> dst, matched |-> FALSE, err |-> "ErrInvalidDB"]
    ELSE IF dst = NilDst THEN [dst |-> dst, matched |-> FALSE, err |-> "ErrNilResult"]
    ELSE lookupIDsIntoU32(d.v4, ip, clearResultIDs(dst))

\* netip.Prefix.String: dotted decimal, a slash, the prefix length
String(p) ==
    ToString(p.ip[1]) \o "." \o ToString(p.ip[2]) \o "." \o ToString(p.ip[3])
        \o "." \o ToString(p.ip[4]) \o "/" \o ToString(p.bits)

\* the indexes of the provider ranges of label idx, in table order
RECURSIVE rangesIdx(_, _, _)
rangesIdx(t, idx, i) ==
    IF i >= Len(t.labels) THEN <<>>
    ELSE (IF At(t.labels, i) = idx THEN <<i>> ELSE <<>>) \o rangesIdx(t, idx, i + 1)

\* sort.Slice(rangesIdx, by starts): insertion sort below 12 elements
RECURSIVE sortIdx(_, _, _)
sortIdx(t, s, acc) ==
    IF s = <<>> THEN acc
    ELSE LET x == Head(s)
             before == SelectSeq(acc, LAMBDA y : ~(At(t.starts, x) < At(t.starts, y)))
             after == SelectSeq(acc, LAMBDA y : At(t.starts, x) < At(t.starts, y))
         IN sortIdx(t, Tail(s), before \o <<x>> \o after)

\* the loop over the sorted ranges: each one is split and printed
RECURSIVE cidrStrings(_, _, _)
cidrStrings(t, idxs, acc) ==
    IF idxs = <<>> THEN [cidrs |-> acc, err |-> ""]
    ELSE LET r == rangeToCIDRs(At(t.starts, Head(idxs)), At(t.ends, Head(idxs))) IN
         IF r.err THEN [cidrs |-> <<>>, err |-> "rangeToCIDRs overflow"]
         ELSE cidrStrings(t, Tail(idxs),
                          acc \o [k \in 1..Len(r.out) |-> String(r.out[k])])

\* a variant of providerCIDRs that does not compare the kind
providerCIDRsAnyKind(d, provider, want) ==
    IF provider \notin DOMAIN d.providerByKey
    THEN [cidrs |-> <<>>, err |-> "ErrUnknownVendor"]
    ELSE cidrStrings(d.v4.provider,
                     sortIdx(d.v4.provider,
                             rangesIdx(d.v4.provider, d.providerByKey[provider], 0), <<>>),
                     <<>>)

providerCIDRs(d, provider, want) ==
    IF provider \notin DOMAIN d.providerByKey
    THEN [cidrs |-> <<>>, err |-> "ErrUnknownVendor"]
    ELSE LET idx == d.providerByKey[provider]
             kind == providerLabel(d.v4, idx).kind
         IN IF want # ProviderKindUnknown /\ kind # want
            THEN [cidrs |-> <<>>, err |-> "ErrUnknownVendor"]
            ELSE cidrStrings(d.v4.provider,
                             sortIdx(d.v4.provider, rangesIdx(d.v4.provider, idx, 0), <<>>),
                             <<>>)

providerCIDRsAny(d, provider) ==
    IF provider \notin DOMAIN d.providerByKey
    THEN [cidrs |-> <<>>, kind |-> ProviderKindUnknown, err |-> "ErrUnknownVendor"]
    ELSE LET idx == d.providerByKey[provider]
             lbl == providerLabel(d.v4, idx)
             r == providerCIDRs(d, lbl.key, lbl.kind)
         IN [cidrs |-> r.cidrs, kind |-> lbl.kind, err |-> r.err]

CloudIPs(d, vendor) ==
    IF d.status # "ok" THEN [cidrs |-> <<>>, err |-> "ErrInvalidDB"]
    ELSE providerCIDRs(d, vendor, ProviderKindCloud)

ProviderIPs(d, provider) ==
    IF d.status # "ok"
    THEN [cidrs |-> <<>>, kind |-> ProviderKindUnknown, err |-> "ErrInvalidDB"]
    ELSE providerCIDRsAny(d, provider)

-----------------------------------------------------------------------------
(* Reference notions the claims are stated with *)

NoCall == [op |-> "none"]

Idx(t) == 0..(Len(t.starts) - 1)

\* interval i of t contains x
Contains(t, i, x) == At(t.starts, i) <= x /\ x <= At(t.ends, i)

ValidIntervals(t) == \A i \in Idx(t) : At(t.starts, i) <= At(t.ends, i)
SortedByStart(t) ==
    \A i \in Idx(t), j \in Idx(t) : i < j => At(t.starts, i) <= At(t.starts, j)
StrictlyIncreasing(t) ==
    \A i \in Idx(t), j \in Idx(t) : i < j => At(t.starts, i) < At(t.starts, j)
PairwiseDisjoint(t) ==
    \A i \in Idx(t), j \in Idx(t) :
        i # j => ~(\E x \in U32 : Contains(t, i, x) /\ Contains(t, j, x))

\* the addresses of a prefix, read back from its octets
PrefixBase(p) == packU32(p.ip)
PrefixSize(p) == 2^(AddrBits - p.bits)
PrefixAddrs(p) == PrefixBase(p)..(PrefixBase(p) + PrefixSize(p) - 1)
Canonical(p) == p.bits \in 0..AddrBits /\ PrefixBase(p) % PrefixSize(p) = 0

-----------------------------------------------------------------------------
(* SpecTable: one interval table, indexed as Open indexes it, then looked up *)

Intervals == {iv \in U32 \X U32 : iv[1] <= iv[2]}

\* tables of up to MaxN intervals with start <= end, sorted by start
DrawnTables ==
    UNION {{s \in [1..n -> Intervals] : \A i \in 1..(n - 1) : s[i][1] <= s[i + 1][1]}
           : n \in 0..MaxN}

TableOf(s) ==
    [NilTable EXCEPT !.starts = [i \in 1..Len(s) |-> s[i][1]],
                     !.ends = [i \in 1..Len(s) |-> s[i][2]],
                     !.labels = [i \in 1..Len(s) |-> i - 1]]

InitTable ==
    /\ phase = "raw"
    /\ tbl \in {TableOf(s) : s \in DrawnTables}
    /\ dir = <<>>
    /\ out = <<>>
    /\ db = <<>>
    /\ call = NoCall

OpenTable ==
    /\ phase = "raw"
    /\ tbl' = indexTable(tbl)
    /\ phase' = "ready"
    /\ UNCHANGED <<dir, out, db, call>>

TableLookup(ip) ==
    /\ phase = "ready"
    /\ call' = [op |-> "lookup", arg |-> ip, ret |-> lookup(tbl, ip)]
    /\ UNCHANGED <<phase, tbl, dir, out, db>>

NextTable ==
    \/ OpenTable
    \/ \E ip \in U32 : TableLookup(ip)

SpecTable == InitTable /\ [][NextTable]_vars

\* C1: on a table of valid, sorted, pairwise disjoint intervals the lookup done
\* after open returns labels[i] when interval i contains ip, and a miss when no
\* interval contains ip.
C1_LookupFindsContaining ==
    (call.op = "lookup" /\ ValidIntervals(tbl) /\ SortedByStart(tbl)
        /\ PairwiseDisjoint(tbl))
    => /\ \A i \in Idx(tbl) :
            Contains(tbl, i, call.arg) => call.ret = <<At(tbl.labels, i), TRUE>>
       /\ (~\E i \in Idx(tbl) : Contains(tbl, i, call.arg)) => call.ret[2] = FALSE

\* C2: after buildBuckets16 on a non-empty sorted table every interval i that
\* contains x has bucket_lo[x>>16] <= i < bucket_hi[x>>16].
C2_BucketCorrect ==
    (phase = "ready" /\ Len(tbl.starts) > 0 /\ SortedByStart(tbl))
    => \A x \in U32 : \A i \in Idx(tbl) :
          Contains(tbl, i, x)
          => /\ At(tbl.bucketLo16, Shr(x, BucketShift)) <= i
             /\ i < At(tbl.bucketHi16, Shr(x, BucketShift))

\* C20: after buildBuckets16 on a non-empty table of n sorted disjoint
\* intervals, bucket_lo[p] is the smallest i whose end is at least the first
\* address of bucket p, bucket_hi[p] the smallest i whose start is at least the
\* first address after bucket p (n when there is none), and both arrays are
\* non-decreasing in p.
C20_BucketBounds ==
    (/\ phase = "ready" /\ Len(tbl.starts) > 0
     /\ ValidIntervals(tbl) /\ SortedByStart(tbl) /\ PairwiseDisjoint(tbl))
    => LET n == Len(tbl.starts)
           firstGE(arr, key) ==
               IF \E i \in 0..(n - 1) : At(arr, i) >= key
               THEN CHOOSE i \in 0..(n - 1) :
                        /\ At(arr, i) >= key
                        /\ \A j \in 0..(i - 1) : At(arr, j) < key
               ELSE n
       IN /\ \A p \in 0..(size - 1) :
               /\ At(tbl.bucketLo16, p) = firstGE(tbl.ends, p * 2^BucketShift)
               /\ At(tbl.bucketHi16, p) = firstGE(tbl.starts, (p + 1) * 2^BucketShift)
          /\ \A p \in 0..(size - 2) :
               /\ At(tbl.bucketLo16, p) <= At(tbl.bucketLo16, p + 1)
               /\ At(tbl.bucketHi16, p) <= At(tbl.bucketHi16, p + 1)

\* C22: on a table detected as dense, with sorted starts, lookup(ip) returns
\* the label of the interval that contains ip, and a miss exactly when that
\* label is labelNone.
C22_DenseLookup ==
    (call.op = "lookup" /\ tbl.dense /\ SortedByStart(tbl))
    => \A i \in Idx(tbl) :
          Contains(tbl, i, call.arg)
          => call.ret = (IF At(tbl.labels, i) = labelNone
                         THEN <<0, FALSE>>
                         ELSE <<At(tbl.labels, i), TRUE>>)

-----------------------------------------------------------------------------
(* SpecCIDR: rangeToCIDRs on every pair of addresses *)

InitCIDR ==
    /\ phase = "cidr"
    /\ tbl = NilTable
    /\ dir = <<>>
    /\ out = <<>>
    /\ db = <<>>
    /\ call = NoCall

RangeToCIDRs(start, end) ==
    /\ phase = "cidr"
    /\ call' = [op |-> "rangeToCIDRs", arg |-> <<start, end>>,
                ret |-> rangeToCIDRs(start, end)]
    /\ UNCHANGED <<phase, tbl, dir, out, db>>

NextCIDR == \E start \in U32, end \in U32 : RangeToCIDRs(start, end)

SpecCIDR == InitCIDR /\ [][NextCIDR]_vars

\* C9: for a <= b, rangeToCIDRs(a, b) terminates without error and returns
\* canonical prefixes that are pairwise non-overlapping and whose union is a..b.
C9_RangeRoundTrip ==
    (call.op = "rangeToCIDRs" /\ call.arg[1] <= call.arg[2])
    => LET ps == call.ret.out IN
       /\ call.ret.done
       /\ ~call.ret.err
       /\ \A k \in 1..Len(ps) : Canonical(ps[k])
       /\ \A k \in 1..Len(ps), m \in 1..Len(ps) :
             k # m => PrefixAddrs(ps[k]) \cap PrefixAddrs(ps[m]) = {}
       /\ UNION {PrefixAddrs(ps[k]) : k \in 1..Len(ps)} = call.arg[1]..call.arg[2]

\* a range that needs several prefixes, ending at the top of the address space
C9_Witness ==
    /\ call.op = "rangeToCIDRs"
    /\ call.arg = <<1, maxU32>>
    /\ Len(call.ret.out) >= 3

-----------------------------------------------------------------------------
(* SpecBuild: a data directory is written line by line, then Build runs *)

\* every CIDR in its written form a.b.c.d/n with the host bits zero
CIDRsOfLen(bits) == {V4Line(ip, bits) : ip \in {a \in U32 : a % 2^(AddrBits - bits) = 0}}
AllCIDRs == UNION {CIDRsOfLen(bits) : bits \in 0..AddrBits}

\* the files a run of SpecBuild writes: two labels of one sub-directory
FocusSets ==
    { {File("country", "CN"), File("country", "US")},
      {File("cncity", "440000"), File("cncity", "440300")},
      {File("isp", "aliyun"), File("isp", "cernet")} }

EmptyDir(F) == [f \in F |-> [present |-> FALSE, lines |-> <<>>]]

RECURSIVE SumLines(_, _)
SumLines(dirv, F) ==
    IF F = {} THEN 0
    ELSE LET f == CHOOSE g \in F : TRUE IN Len(dirv[f].lines) + SumLines(dirv, F \ {f})
TotalLines(dirv) == SumLines(dirv, DOMAIN dirv)

InitBuild ==
    /\ phase = "input"
    /\ tbl = NilTable
    /\ dir \in {EmptyDir(F) : F \in FocusSets}
    /\ out = <<>>
    /\ db = <<>>
    /\ call = NoCall

CreateFile(f) ==
    /\ phase = "input"
    /\ ~dir[f].present
    /\ dir' = [dir EXCEPT ![f].present = TRUE]
    /\ UNCHANGED <<phase, tbl, out, db, call>>

AppendLine(f, line, most) ==
    /\ phase = "input"
    /\ dir[f].present
    /\ TotalLines(dir) < most
    /\ dir' = [dir EXCEPT ![f].lines = Append(@, line)]
    /\ UNCHANGED <<phase, tbl, out, db, call>>

RunBuild ==
    /\ phase \in {"input", "emitted"}
    /\ out' = Build(dir)
    /\ phase' = "built"
    /\ UNCHANGED <<tbl, dir, db, call>>

\* the country directory is written one line deeper than the other two
LineBudget(dirv) ==
    IF File("country", "CN") \in DOMAIN dirv THEN MaxLines ELSE MaxLines - 1

NextBuild ==
    \/ \E f \in DOMAIN dir : CreateFile(f)
    \/ \E f \in DOMAIN dir, line \in AllCIDRs : AppendLine(f, line, LineBudget(dir))
    \/ RunBuild

SpecBuild == InitBuild /\ [][NextBuild]_vars

\* interval table number k (0 country, 1 CN province, 2 CN city, 3 provider)
\* as the section header of the written file places it
EmittedTable(file, k) ==
    LET count == file.sec[10 + 4 * k] IN
    [NilTable EXCEPT !.starts = wordsAt(file, file.sec[7 + 4 * k], count),
                     !.ends = wordsAt(file, file.sec[8 + 4 * k], count),
                     !.labels = wordsAt(file, file.sec[9 + 4 * k], count)]

BuildOK == phase = "built" /\ out.err = ""

\* the addresses a line denotes, and those of a file
LineAddrs(line) ==
    LET written == packU32(line.ip)
        base == written - (written % 2^(AddrBits - line.bits))
    IN base..(base + 2^(AddrBits - line.bits) - 1)
FileAddrs(dirv, f) ==
    IF ~Present(dirv, f) THEN {}
    ELSE UNION {LineAddrs(dirv[f].lines[k]) : k \in 1..Len(dirv[f].lines)}

\* the table a file is ingested into: -1 for a file the builder skips
TableOfFile(f) ==
    IF f[1] = "country" THEN (IF Len(f[2]) = 2 THEN 0 ELSE -1)
    ELSE IF f[1] = "cncity"
    THEN (IF Len(f[2]) # 6 THEN -1
          ELSE IF HasSuffix(f[2], "0000") THEN 1
          ELSE IF HasSuffix(f[2], "00") THEN 2 ELSE -1)
    ELSE 3

\* C3: in every table a successful Build emits, starts is strictly increasing
\* and starts[i+1] <= ends[i] only between entries of one label.
C3_SortedDisjointPerLabel ==
    BuildOK => \A k \in 0..3 :
        LET t == EmittedTable(out.file, k) IN
        /\ StrictlyIncreasing(t)
        /\ \A i \in Idx(t) :
              (i + 1 \in Idx(t) /\ At(t.starts, i + 1) <= At(t.ends, i))
              => At(t.labels, i + 1) = At(t.labels, i)

\* C4: in every table a successful Build emits, no two distinct intervals
\* share an address.
C4_NoRuntimeOverlap ==
    BuildOK => \A k \in 0..3 : PairwiseDisjoint(EmittedTable(out.file, k))

\* C5: Build fails with an overlap error whenever two files of one category
\* with different labels share an address, and never succeeds with an address
\* covered by two different labels of one category.
C5_OverlapRejected ==
    phase = "built" =>
        /\ (\E f \in DOMAIN dir, g \in DOMAIN dir :
               /\ f # g
               /\ TableOfFile(f) >= 0
               /\ TableOfFile(f) = TableOfFile(g)
               /\ FileAddrs(dir, f) \cap FileAddrs(dir, g) # {})
           => out.err \in {"country: overlap", "cn province: overlap",
                           "cn city: overlap", "provider: overlap"}
        /\ out.err = "" => \A k \in 0..3 :
               LET t == EmittedTable(out.file, k) IN
               \A i \in Idx(t), j \in Idx(t) :
                   (\E x \in U32 : Contains(t, i, x) /\ Contains(t, j, x))
                   => At(t.labels, i) = At(t.labels, j)


-----------------------------------------------------------------------------
(* Spec: a data directory is written, built, opened and queried *)

\* the files of the pipeline: one country, one province, one city, one provider
PipelineFiles ==
    {File("country", "CN"), File("cncity", "440000"),
     File("cncity", "440300"), File("isp", "aliyun")}

\* what a file of the pipeline may hold: the whole address space or a half of
\* it, and for the CN files a quarter as well
PipelineCIDRs(f) ==
    CIDRsOfLen(0) \cup CIDRsOfLen(1) \cup (IF f[1] = "cncity" THEN CIDRsOfLen(2) ELSE {})

ProviderArgs == {"aliyun", "cernet", ""}

FullOps == {"LookupAddrInto", "LookupIPv4Uint32Into"}
IDsOps == {"LookupAddrIDsInto", "LookupIPv4Uint32IDsInto"}

\* the destinations a caller passes: a fresh one, or one that still holds the
\* fields of an earlier answer
UsedResult ==
    [IP |-> AddrV6, CountryCode |-> "US", CountryName |-> "US",
     CNProvinceCode |-> "110000", CNProvinceName |-> "110000",
     CNCityCode |-> "110100", CNCityName |-> "110100",
     ProviderKey |-> "cernet", ProviderName |-> "cernet", ProviderKind |-> ProviderKindCloud]
UsedResultIDs ==
    [IP |-> AddrV6, CountryID |-> 0, CNProvinceID |-> 0, CNCityID |-> 0,
     ProviderID |-> 0, ProviderKind |-> ProviderKindCloud]
Results == {ZeroResult, UsedResult}
ResultsIDs == {ZeroResultIDs, UsedResultIDs}

Init ==
    /\ phase = "input"
    /\ tbl = NilTable
    /\ dir = EmptyDir(PipelineFiles)
    /\ out = <<>>
    /\ db = <<>>
    /\ call = NoCall

WriteFile(f, line) ==
    /\ phase = "input"
    /\ ~dir[f].present
    /\ dir' = [dir EXCEPT ![f] = [present |-> TRUE, lines |-> <<line>>]]
    /\ UNCHANGED <<phase, tbl, out, db, call>>

Open ==
    /\ phase = "built"
    /\ out.err = ""
    /\ db' = open(out.file)
    /\ phase' = "open"
    /\ UNCHANGED <<tbl, dir, out, call>>

\* Open on a big-endian host
OpenBigEndian ==
    /\ phase = "built"
    /\ out.err = ""
    /\ db' = openOn(out.file, FALSE)
    /\ phase' = "open"
    /\ UNCHANGED <<tbl, dir, out, call>>

Opened == phase = "open" /\ db.status = "ok" /\ call.op = "none"

CallLookupAddrInto(addr, dst) ==
    /\ Opened
    /\ call' = [op |-> "LookupAddrInto", addr |-> addr,
                ip |-> IF Is4(addr) THEN packU32(addr.b) ELSE -1,
                ret |-> LookupAddrInto(db, addr, dst)]
    /\ UNCHANGED <<phase, tbl, dir, out, db>>

CallLookupAddrIDsInto(addr, dst) ==
    /\ Opened
    /\ call' = [op |-> "LookupAddrIDsInto", addr |-> addr,
                ip |-> IF Is4(addr) THEN packU32(addr.b) ELSE -1,
                ret |-> LookupAddrIDsInto(db, addr, dst)]
    /\ UNCHANGED <<phase, tbl, dir, out, db>>

CallLookupIPv4Uint32Into(ip, dst) ==
    /\ Opened
    /\ call' = [op |-> "LookupIPv4Uint32Into", addr |-> ZeroAddr, ip |-> ip,
                ret |-> LookupIPv4Uint32Into(db, ip, dst)]
    /\ UNCHANGED <<phase, tbl, dir, out, db>>

CallLookupIPv4Uint32IDsInto(ip, dst) ==
    /\ Opened
    /\ call' = [op |-> "LookupIPv4Uint32IDsInto", addr |-> ZeroAddr, ip |-> ip,
                ret |-> LookupIPv4Uint32IDsInto(db, ip, dst)]
    /\ UNCHANGED <<phase, tbl, dir, out, db>>

CallProviderIPs(provider) ==
    /\ Opened
    /\ call' = [op |-> "ProviderIPs", arg |-> provider, ret |-> ProviderIPs(db, provider)]
    /\ UNCHANGED <<phase, tbl, dir, out, db>>

CallCloudIPs(vendor) ==
    /\ Opened
    /\ call' = [op |-> "CloudIPs", arg |-> vendor, ret |-> CloudIPs(db, vendor)]
    /\ UNCHANGED <<phase, tbl, dir, out, db>>

\* the call has returned and the caller is ready for the next one
Return ==
    /\ phase = "open"
    /\ call.op # "none"
    /\ call' = NoCall
    /\ UNCHANGED <<phase, tbl, dir, out, db>>

Addrs == {AddrFrom4(bytesOf(ip)) : ip \in U32} \cup {AddrV6}

Next ==
    \/ \E f \in PipelineFiles : \E line \in PipelineCIDRs(f) : WriteFile(f, line)
    \/ RunBuild
    \/ Open
    \/ OpenBigEndian
    \/ \E addr \in Addrs, dst \in Results : CallLookupAddrInto(addr, dst)
    \/ \E addr \in Addrs, dst \in ResultsIDs : CallLookupAddrIDsInto(addr, dst)
    \/ \E ip \in U32, dst \in Results : CallLookupIPv4Uint32Into(ip, dst)
    \/ \E ip \in U32, dst \in ResultsIDs : CallLookupIPv4Uint32IDsInto(ip, dst)
    \/ \E provider \in ProviderArgs : CallProviderIPs(provider)
    \/ \E vendor \in ProviderArgs : CallCloudIPs(vendor)
    \/ Return

Spec == Init /\ [][Next]_vars


LookupOps == FullOps \cup IDsOps
V4Call == phase = "open" /\ call.op \in LookupOps /\ call.ip \in U32

\* C6: when the CN city table and the CN province table both hit on x, the
\* full lookup fills the city fields and leaves the province fields empty, the
\* ID lookup sets CNCityID and leaves CNProvinceID at IDNone; a province is
\* reported only when the city table misses.
C6_CityPreferred ==
    V4Call =>
       LET city == lookup(db.v4.cnCity, call.ip)
           prov == lookup(db.v4.cnProv, call.ip)
           dst == call.ret.dst
       IN IF call.op \in FullOps
          THEN /\ (city[2] /\ prov[2]) =>
                    /\ dst.CNCityCode = cnLabel(db.v4, city[1]).code
                    /\ dst.CNCityName = cnLabel(db.v4, city[1]).name
                    /\ dst.CNCityCode # ""
                    /\ dst.CNProvinceCode = ""
                    /\ dst.CNProvinceName = ""
               /\ (dst.CNProvinceCode # "" \/ dst.CNProvinceName # "") => ~city[2]
          ELSE /\ (city[2] /\ prov[2]) =>
                    /\ dst.CNCityID = city[1]
                    /\ dst.CNCityID # IDNone
                    /\ dst.CNProvinceID = IDNone
               /\ dst.CNProvinceID # IDNone => ~city[2]

\* both CN tables hold the looked-up address; a full lookup into a used
\* destination answered with the city
C6_Witness ==
    /\ V4Call
    /\ call.op = "LookupAddrInto"
    /\ lookup(db.v4.cnCity, call.ip)[2]
    /\ lookup(db.v4.cnProv, call.ip)[2]
    /\ call.ret.dst.CNCityCode = "440300"
    /\ call.ret.dst.CNProvinceCode = ""

\* the labels of a full result and of an ID result
LabelsOf(r) ==
    <<r.CountryCode, r.CountryName, r.CNProvinceCode, r.CNProvinceName,
      r.CNCityCode, r.CNCityName, r.ProviderKey, r.ProviderName, r.ProviderKind>>
IDsOf(r) == <<r.CountryID, r.CNProvinceID, r.CNCityID, r.ProviderID, r.ProviderKind>>

\* the address a.b.c.d whose packed form a<<24 | b<<16 | c<<8 | d is x
AddrOfPacked(x) ==
    CHOOSE a \in Addrs :
        /\ Is4(a)
        /\ x = a.b[1] * 2^OctetShift(0) + a.b[2] * 2^OctetShift(1)
                + a.b[3] * 2^OctetShift(2) + a.b[4]

C8_OpenAfterBuild ==
    /\ phase = "open" => db.status = "ok"
    /\ (V4Call /\ \A f \in PipelineFiles : ~dir[f].present) =>
          /\ call.ret.err = ""
          /\ ~call.ret.matched

\* the least number of prefixes that cover a..b exactly: the first prefix
\* starts at a, is aligned and stays below b
RECURSIVE MinCount(_, _)
MinCount(a, b) ==
    IF a > b THEN 0
    ELSE LET fits == {k \in 0..AddrBits : a % 2^k = 0 /\ a + 2^k - 1 <= b}
             rest == {MinCount(a + 2^k, b) : k \in fits}
         IN 1 + CHOOSE n \in rest : \A m \in rest : n <= m

\* the cover of a..b by the largest aligned block at each step, as text
RECURSIVE RefCover(_, _)
RefCover(a, b) ==
    IF a > b THEN <<>>
    ELSE LET fits == {k \in 0..AddrBits : a % 2^k = 0 /\ a + 2^k - 1 <= b}
             k == CHOOSE j \in fits : \A m \in fits : m <= j
             o == CHOOSE q \in Addrs : Is4(q) /\ AddrOfPacked(a) = q
         IN <<ToString(o.b[1]) \o "." \o ToString(o.b[2]) \o "." \o ToString(o.b[3])
                \o "." \o ToString(o.b[4]) \o "/" \o ToString(AddrBits - k)>>
            \o RefCover(a + 2^k, b)

\* the ranges of a provider label in ascending order, covered one by one
RECURSIVE RefProviderCover(_, _, _)
RefProviderCover(t, idx, from) ==
    LET mine == {i \in Idx(t) : At(t.labels, i) = idx /\ At(t.starts, i) >= from} IN
    IF mine = {} THEN <<>>
    ELSE LET i == CHOOSE j \in mine : \A m \in mine : At(t.starts, j) <= At(t.starts, m)
         IN RefCover(At(t.starts, i), At(t.ends, i))
            \o RefProviderCover(t, idx, At(t.starts, i) + 1)

RECURSIVE SumMinCount(_, _, _)
SumMinCount(t, idx, i) ==
    IF i >= Len(t.starts) THEN 0
    ELSE (IF At(t.labels, i) = idx THEN MinCount(At(t.starts, i), At(t.ends, i)) ELSE 0)
         + SumMinCount(t, idx, i + 1)

\* C10: the provider enumeration returns, for each range of the provider, the
\* cover of the range by the fewest canonical CIDRs, in ascending address order.
C10_MinimalCover ==
    (phase = "open" /\ call.op = "ProviderIPs" /\ call.ret.err = "") =>
       LET t == db.v4.provider
           idx == db.providerByKey[call.arg]
       IN /\ Len(call.ret.cidrs) = SumMinCount(t, idx, 0)
          /\ call.ret.cidrs = RefProviderCover(t, idx, 0)


-----------------------------------------------------------------------------
(* SpecNorm: a small directory is read file by file, built, and built again *)
(* from the CIDRs of the ranges the first build emitted                     *)

\* two countries, or a province next to a district code the builder skips
NormSets ==
    { {File("country", "CN"), File("country", "US")},
      {File("cncity", "440000"), File("cncity", "440301")} }

InitNorm ==
    /\ phase = "input"
    /\ tbl = NilTable
    /\ dir \in {EmptyDir(F) : F \in NormSets}
    /\ out = <<>>
    /\ db = <<>>
    /\ call = NoCall

\* readCIDRFileAsRanges on one file of the directory
ReadFile(f) ==
    /\ phase = "input"
    /\ dir[f].present
    /\ call' = [op |-> "readCIDRFileAsRanges", arg |-> dir[f].lines,
                ret |-> readCIDRFileAsRanges(dir[f].lines)]
    /\ phase' = "read"
    /\ UNCHANGED <<tbl, dir, out, db>>

\* the label codes of table k in the written file, by label index
EmittedCodes(file, k) ==
    IF k = 0
    THEN LET ls == label2Of(wordsAt(file, file.sec[1], 2 * file.sec[2]))
         IN [i \in 1..Len(ls) |-> At(file.strings, ls[i].Code)]
    ELSE IF k = 3
    THEN LET ls == providerLabelOf(wordsAt(file, file.sec[5], 3 * file.sec[6]))
         IN [i \in 1..Len(ls) |-> At(file.strings, ls[i].Key)]
    ELSE LET ls == label2Of(wordsAt(file, file.sec[3], 2 * file.sec[4]))
         IN [i \in 1..Len(ls) |-> At(file.strings, ls[i].Code)]

\* the prefixes of range i of a table
cidrsAt(t, i) == rangeToCIDRs(At(t.starts, i), At(t.ends, i)).out

\* the written form a.b.c.d/n of every prefix of a list
linesOfPrefixes(ps) == [k \in 1..Len(ps) |-> V4Line(packU32(ps[k].ip), ps[k].bits)]

\* the CIDRs of the emitted ranges of one label of table k, range after range
RECURSIVE emittedLines(_, _, _, _)
emittedLines(file, k, code, i) ==
    IF i >= Len(EmittedTable(file, k).starts) THEN <<>>
    ELSE (IF EmittedCodes(file, k)[At(EmittedTable(file, k).labels, i) + 1] = code
          THEN linesOfPrefixes(cidrsAt(EmittedTable(file, k), i))
          ELSE <<>>)
         \o emittedLines(file, k, code, i + 1)

\* the directory that holds, file by file, the CIDRs of what was emitted
emittedDir(dirv, file) ==
    [f \in DOMAIN dirv |->
        IF ~dirv[f].present \/ TableOfFile(f) < 0 THEN dirv[f]
        ELSE [present |-> TRUE, lines |-> emittedLines(file, TableOfFile(f), f[2], 0)]]

\* the data directory is replaced by the CIDR files of the emitted ranges,
\* for Build to run again
Decompose ==
    /\ phase = "built"
    /\ out.err = ""
    /\ call.op = "none"
    /\ call' = [op |-> "decompose", first |-> out.file]
    /\ dir' = emittedDir(dir, out.file)
    /\ phase' = "emitted"
    /\ UNCHANGED <<tbl, out, db>>

NextNorm ==
    \/ \E f \in DOMAIN dir : CreateFile(f)
    \/ \E f \in DOMAIN dir, line \in AllCIDRs : AppendLine(f, line, MaxLines - 1)
    \/ \E f \in DOMAIN dir : ReadFile(f)
    \/ RunBuild
    \/ Decompose

SpecNorm == InitNorm /\ [][NextNorm]_vars

\* C11: building again from the CIDR decomposition of every emitted range
\* gives the interval tables (starts, ends, labels) of the first build.
C11_RebuildSame ==
    (phase = "built" /\ call.op = "decompose") =>
        /\ out.err = ""
        /\ \A k \in 0..3 : EmittedTable(out.file, k) = EmittedTable(call.first, k)


\* C18: a cncity file whose code ends in neither "0000" nor "00" has no
\* effect on Build: the result is that of the directory without the file.
C18_DistrictFileIgnored ==
    (/\ phase = "built"
     /\ File("cncity", "440301") \in DOMAIN dir
     /\ dir[File("cncity", "440301")].present)
    => out = Build([dir EXCEPT ![File("cncity", "440301")] =
                               [present |-> FALSE, lines |-> <<>>]])

\* C19: the ranges readCIDRFileAsRanges returns are sorted by start, pairwise
\* disjoint and non-abutting (the next start exceeds the previous end + 1,
\* without wrap-around), and cover exactly the addresses of the CIDRs read.
C19_NormalisedRanges ==
    (call.op = "readCIDRFileAsRanges" /\ call.ret.err = "")
    => LET rs == call.ret.out IN
       /\ \A k \in 1..Len(rs) : rs[k].start <= rs[k].end
       /\ \A k \in 1..(Len(rs) - 1) : rs[k + 1].start > rs[k].end + 1
       /\ UNION {rs[k].start..rs[k].end : k \in 1..Len(rs)}
             = UNION {LineAddrs(call.arg[k]) : k \in 1..Len(call.arg)}

-----------------------------------------------------------------------------
(* SpecProv: a cloud vendor and an ISP are written, built, opened and listed *)

ProvFiles == {File("isp", "aliyun"), File("isp", "cernet")}
ProvCIDRs == CIDRsOfLen(0) \cup CIDRsOfLen(1) \cup CIDRsOfLen(2)

InitProv ==
    /\ phase = "input"
    /\ tbl = NilTable
    /\ dir = EmptyDir(ProvFiles)
    /\ out = <<>>
    /\ db = <<>>
    /\ call = NoCall

NextProv ==
    \/ \E f \in ProvFiles, line \in ProvCIDRs : WriteFile(f, line)
    \/ RunBuild
    \/ Open
    \/ \E provider \in ProviderArgs : CallProviderIPs(provider)
    \/ \E vendor \in ProviderArgs : CallCloudIPs(vendor)
    \/ Return

SpecProv == InitProv /\ [][NextProv]_vars

\* the provider labels of the opened database that carry a key
LabelsOfKey(d, key) ==
    {i \in 0..(Len(d.v4.providerLabels) - 1) : providerLabel(d.v4, i).key = key}

\* C12: the provider listing answers UnknownVendor, with no CIDRs, exactly
\* when the key is not in the provider label table or a kind is required and
\* differs from the key's kind: CloudIPs succeeds only for cloud keys,
\* ProviderIPs succeeds for every key of the table and returns its kind.
C12_UnknownVendorExactly ==
    (phase = "open" /\ call.op \in {"ProviderIPs", "CloudIPs"}) =>
       LET ls == LabelsOfKey(db, call.arg)
           cloud == \E i \in ls : providerLabel(db.v4, i).kind = ProviderKindCloud
       IN /\ call.ret.err \in {"", "ErrUnknownVendor"}
          /\ call.ret.err # "" => call.ret.cidrs = <<>>
          /\ call.op = "ProviderIPs" =>
                /\ (call.ret.err = "ErrUnknownVendor") <=> (ls = {})
                /\ ls # {} => \E i \in ls : call.ret.kind = providerLabel(db.v4, i).kind
          /\ call.op = "CloudIPs" =>
                (call.ret.err = "ErrUnknownVendor") <=> (ls = {} \/ ~cloud)

\* CloudIPs asked for an ISP that is in the table
C12_Witness ==
    /\ phase = "open"
    /\ call.op = "CloudIPs"
    /\ call.arg = "cernet"
    /\ LabelsOfKey(db, "cernet") # {}
    /\ call.ret.err = "ErrUnknownVendor"


-----------------------------------------------------------------------------
\* C13: a built file that opens on a little-endian host also opens on a
\* big-endian host, and the two give the same lookup result for every address.
C13_EndianParity ==
    (phase = "open" /\ open(out.file).status = "ok") =>
        /\ db.status = "ok"
        /\ \A ip \in U32 :
              /\ LookupIPv4Uint32Into(db, ip, ZeroResult)
                    = LookupIPv4Uint32Into(open(out.file), ip, ZeroResult)
              /\ LookupIPv4Uint32IDsInto(db, ip, ZeroResultIDs)
                    = LookupIPv4Uint32IDsInto(open(out.file), ip, ZeroResultIDs)


\* the arrays of a file in the order of the section header: offset and bytes
ArraySpans(file) ==
    LET f == file.sec IN
    << <<f[1], 8 * f[2]>>, <<f[3], 8 * f[4]>>, <<f[5], 12 * f[6]>>,
       <<f[7], 4 * f[10]>>, <<f[8], 4 * f[10]>>, <<f[9], 4 * f[10]>>,
       <<f[11], 4 * f[14]>>, <<f[12], 4 * f[14]>>, <<f[13], 4 * f[14]>>,
       <<f[15], 4 * f[18]>>, <<f[16], 4 * f[18]>>, <<f[17], 4 * f[18]>>,
       <<f[19], 4 * f[22]>>, <<f[20], 4 * f[22]>>, <<f[21], 4 * f[22]>> >>

\* C25: in every file Build wrote the section header begins at a multiple of
\* 8 after the strings, every label table and array begins at a multiple of 4,
\* and the arrays follow the section header in the order country labels, CN
\* labels, provider labels, country, CN province, CN city, provider (starts,
\* ends, labels), none reaching into the next.
C25_AlignedLayout ==
    (phase # "input" /\ out.err = "")
    => LET file == out.file
           a == ArraySpans(file)
       IN /\ file.secOff % 8 = 0
          /\ file.stringsOff + file.stringsSize <= file.secOff
          /\ file.secOff + file.secSize <= a[1][1]
          /\ \A k \in 1..Len(a) : a[k][1] % 4 = 0
          /\ \A k \in 1..(Len(a) - 1) : a[k][1] + a[k][2] <= a[k + 1][1]
          /\ a[Len(a)][1] + a[Len(a)][2] <= file.size

\* a file whose strings end off the 8-byte grid, with provider ranges after it
C25_Witness ==
    /\ phase = "built"
    /\ out.err = ""
    /\ (out.file.stringsOff + out.file.stringsSize) % 8 # 0
    /\ out.file.sec[22] > 0

-----------------------------------------------------------------------------
(* SpecOpen: a file is built, damaged in one place or cut short, and opened *)

OffsetFields == {1, 3, 5, 7, 8, 9, 11, 12, 13, 15, 16, 17, 19, 20, 21}
CountFields == {2, 4, 6, 10, 14, 18, 22}

\* a file cut short, or with one header or section field overwritten; a moved
\* offset points at no array of the file, so that what is read stays known
Damaged(file) ==
    {[file EXCEPT !.size = n] :
        n \in {0, headerSize - 1, file.secOff, file.bodyOff, file.size - 4}
                 \cap (0..(file.size - 1))}
    \cup {[file EXCEPT !.magic = "IPL3"], [file EXCEPT !.version = version2 + 1]}
    \cup {[file EXCEPT !.stringsOff = v] : v \in {0, file.size}}
    \cup {[file EXCEPT !.stringsSize = v] : v \in {0, 2, file.stringsSize - 1, file.size}}
    \cup {[file EXCEPT !.secOff = v] : v \in {0, file.size}}
    \cup {[file EXCEPT !.secSize = v] : v \in {0, 8, file.size}}
    \cup {[file EXCEPT !.secOff = file.size - 8, !.secSize = 8]}
    \cup {[file EXCEPT !.sec[j] = v] : j \in OffsetFields, v \in {0, file.size, file.size + 4}}
    \cup UNION {{[file EXCEPT !.sec[j] = v] : v \in {0, file.sec[j] + 1, file.size}}
                 : j \in CountFields}

InitOpen ==
    /\ phase = "input"
    /\ tbl = NilTable
    /\ dir = EmptyDir(PipelineFiles)
    /\ out = <<>>
    /\ db = <<>>
    /\ call = NoCall

Damage ==
    /\ phase = "built"
    /\ out.err = ""
    /\ \E file \in Damaged(out.file) : out' = [out EXCEPT !.file = file]
    /\ phase' = "damaged"
    /\ UNCHANGED <<tbl, dir, db, call>>

OpenDamaged ==
    /\ phase = "damaged"
    /\ db' = open(out.file)
    /\ phase' = "open"
    /\ UNCHANGED <<tbl, dir, out, call>>

NextOpen ==
    \/ \E f \in PipelineFiles, line \in CIDRsOfLen(0) : WriteFile(f, line)
    \/ RunBuild
    \/ Damage
    \/ Open
    \/ OpenDamaged

SpecOpen == InitOpen /\ [][NextOpen]_vars

\* the span off .. off+len lies inside the file
SpanInside(file, off, len) == off >= 0 /\ len >= 0 /\ off + len <= file.size

\* the array spans the section header names: three label arrays, then starts,
\* ends and labels of the four tables
ArraySpansInside(file) ==
    LET f == file.sec IN
    /\ SpanInside(file, f[1], 8 * f[2])
    /\ SpanInside(file, f[3], 8 * f[4])
    /\ SpanInside(file, f[5], 12 * f[6])
    /\ \A k \in 0..3 : \A j \in 7..9 : SpanInside(file, f[j + 4 * k], 4 * f[10 + 4 * k])

\* C14: Open returns InvalidDB and no handle whenever the file is shorter than
\* the header, the magic is not IPL4, the version is not 2, the strings span
\* or the section span is not inside the file, or an array span is not inside
\* the file.
C14_InvalidDBOnBadFile ==
    (phase = "open"
       /\ \/ out.file.size < headerSize
          \/ out.file.magic # "IPL4"
          \/ out.file.version # 2
          \/ ~SpanInside(out.file, out.file.stringsOff, out.file.stringsSize)
          \/ ~SpanInside(out.file, out.file.secOff, out.file.secSize)
          \/ ~ArraySpansInside(out.file))
    => db = [status |-> "ErrInvalidDB"]

\* C15: whatever the file holds, Open returns a database or an error and never
\* faults; once it has returned a database no lookup reports an error.
C15_OpenNeverFaults ==
    phase = "open" =>
        /\ db.status \in {"ok", "ErrInvalidDB"}
        /\ db.status = "ok" => \A ip \in U32 :
              /\ LookupIPv4Uint32Into(db, ip, ZeroResult).err = ""
              /\ LookupIPv4Uint32IDsInto(db, ip, ZeroResultIDs).err = ""


-----------------------------------------------------------------------------
(* SpecClose: what Open acquires and what Close gives back *)

\* a handle: status of Open, the fields data (a mapping is held) and raw (a
\* file is held), and the mapping and the descriptor as the system sees them
NoHandle(status) ==
    [status |-> status, data |-> FALSE, raw |-> FALSE, mapped |-> FALSE, fd |-> FALSE,
     v4 |-> <<>>]

\* open, step by step: os.Open, Stat, the size check, mmapFile, parseV4; each
\* failing step closes what the earlier steps acquired
openHandle(file, openErr, statErr, mmapErr) ==
    IF openErr THEN NoHandle("os.Open error")
    ELSE IF statErr THEN NoHandle("Stat error")
    ELSE IF file.size < headerSize THEN NoHandle("ErrInvalidDB")
    ELSE IF mmapErr THEN NoHandle("mmap error")
    ELSE IF parseV4(file).status = "ok"
    THEN [status |-> "ok", data |-> TRUE, raw |-> TRUE, mapped |-> TRUE, fd |-> TRUE,
          v4 |-> parseV4(file).v4]
    ELSE IF parseV4(file).status = "ErrInvalidDB"
    THEN NoHandle("ErrInvalidDB")
    ELSE [status |-> parseV4(file).status, data |-> TRUE, raw |-> TRUE,
          mapped |-> TRUE, fd |-> TRUE, v4 |-> <<>>]

\* a variant of close that returns as soon as Munmap fails
closeEarly(h, munmapErr, closeErr) ==
    IF h.data /\ munmapErr
    THEN [h |-> h, err |-> "munmap error", sys |-> <<"munmap">>]
    ELSE [h |-> [h EXCEPT !.data = FALSE, !.raw = FALSE, !.mapped = FALSE, !.fd = FALSE],
          err |-> IF h.raw /\ closeErr THEN "close error" ELSE "",
          sys |-> (IF h.data THEN <<"munmap">> ELSE <<>>)
                  \o (IF h.raw THEN <<"close">> ELSE <<>>)]

\* DB.close: Munmap when data is held, Close when raw is held, both fields
\* cleared, the first error returned; a failed Munmap leaves the mapping
close(h, munmapErr, closeErr) ==
    [h |-> [h EXCEPT !.data = FALSE, !.raw = FALSE,
                     !.mapped = IF h.data THEN (@ /\ munmapErr) ELSE @,
                     !.fd = IF h.raw THEN FALSE ELSE @],
     err |-> IF h.data /\ munmapErr THEN "munmap error"
             ELSE IF h.raw /\ closeErr THEN "close error"
             ELSE "",
     sys |-> (IF h.data THEN <<"munmap">> ELSE <<>>)
             \o (IF h.raw THEN <<"close">> ELSE <<>>)]

\* DB.Close on the handle Open returned, nil when Open failed
Close(h, munmapErr, closeErr) ==
    IF h.status # "ok" THEN [h |-> h, err |-> "", sys |-> <<>>]
    ELSE close(h, munmapErr, closeErr)

OpenHandle(openErr, statErr, mmapErr) ==
    /\ phase \in {"built", "damaged"}
    /\ out.err = ""
    /\ db' = openHandle(out.file, openErr, statErr, mmapErr)
    /\ phase' = "open"
    /\ UNCHANGED <<tbl, dir, out, call>>

CallClose(munmapErr, closeErr) ==
    /\ phase \in {"open", "closed"}
    /\ db.status \in {"ok", "ErrInvalidDB"}
    /\ IF call.op = "none" THEN TRUE ELSE call.n < 2
    /\ call' = [op |-> "Close", before |-> db, munmapErr |-> munmapErr,
                closeErr |-> closeErr, ret |-> Close(db, munmapErr, closeErr),
                n |-> IF call.op = "none" THEN 1 ELSE call.n + 1]
    /\ db' = Close(db, munmapErr, closeErr).h
    /\ phase' = "closed"
    /\ UNCHANGED <<tbl, dir, out>>

\* lookup reads starts, ends or labels of t: not on an empty table, and not on
\* an empty bucket window
readsTable(t, ip) ==
    /\ Len(t.starts) > 0
    /\ At(t.bucketLo16, Shr(ip, BucketShift))
         < Min(At(t.bucketHi16, Shr(ip, BucketShift)), Len(t.starts))

\* LookupIPv4Uint32Into on a handle: v4 and its views outlive Close, and a read
\* of a view whose mapping is gone is a fault
lookupOnHandle(h, ip) ==
    IF /\ h.status = "ok"
       /\ ~h.mapped
       /\ \E t \in {h.v4.country, h.v4.cnProv, h.v4.cnCity, h.v4.provider} :
             readsTable(t, ip)
    THEN [dst |-> ZeroResult, matched |-> FALSE, err |-> "fault"]
    ELSE LookupIPv4Uint32Into(h, ip, ZeroResult)

\* a lookup on the handle, before or after Close
CallLookup(ip) ==
    /\ phase \in {"open", "closed"}
    /\ db.status = "ok"
    /\ call' = [op |-> "LookupIPv4Uint32Into", arg |-> ip, closed |-> phase = "closed",
                ret |-> lookupOnHandle(db, ip)]
    /\ phase' = "used"
    /\ UNCHANGED <<tbl, dir, out, db>>

NextClose ==
    \/ \E f \in PipelineFiles, line \in CIDRsOfLen(0) : WriteFile(f, line)
    \/ RunBuild
    \/ Damage
    \/ \E openErr \in BOOLEAN, statErr \in BOOLEAN, mmapErr \in BOOLEAN :
          OpenHandle(openErr, statErr, mmapErr)
    \/ \E munmapErr \in BOOLEAN, closeErr \in BOOLEAN : CallClose(munmapErr, closeErr)
    \/ \E ip \in {0, maxU32} : CallLookup(ip)

SpecClose == InitOpen /\ [][NextClose]_vars

C26_NoUseAfterClose ==
    (phase = "used" /\ call.closed)
    => \/ call.ret.err = "ErrInvalidDB"
       \/ (call.ret.err = "" /\ ~call.ret.matched)

-----------------------------------------------------------------------------
(* SpecWrite: Build over an output path that may already hold a database;   *)
(* out.file is what the path holds, call the position of Build              *)

WriteSet == {File("country", "CN"), File("country", "US")}

InitWrite ==
    /\ phase = "input"
    /\ tbl = NilTable
    /\ dir = EmptyDir(WriteSet)
    /\ out = [err |-> "", file |-> NoFile]
    /\ db = <<>>
    /\ call = NoCall

\* Build up to the point where the bytes of the database, or an error, are
\* known
BuildBytes ==
    /\ phase = "input"
    /\ call' = [op |-> "Build", ret |-> Build(dir), prev |-> out.file]
    /\ phase' = "writing"
    /\ UNCHANGED <<tbl, dir, out, db>>

\* Build returns its error before os.WriteFile is called
ReturnError ==
    /\ phase = "writing"
    /\ call.ret.err # ""
    /\ out' = [out EXCEPT !.err = call.ret.err]
    /\ phase' = "failed"
    /\ UNCHANGED <<tbl, dir, db, call>>

\* the data directory is edited further and Build is run over the same
\* output path again
EditAgain ==
    /\ phase \in {"built", "failed", "interrupted"}
    /\ phase' = "input"
    /\ call' = NoCall
    /\ UNCHANGED <<tbl, dir, out, db>>

\* os.WriteFile opens the path with O_WRONLY|O_CREATE|O_TRUNC
OpenTrunc ==
    /\ phase = "writing"
    /\ call.ret.err = ""
    /\ out' = [out EXCEPT !.file = NoFile]
    /\ phase' = "truncated"
    /\ UNCHANGED <<tbl, dir, db, call>>

\* os.WriteFile writes the bytes and closes the file
WriteBytes ==
    /\ phase = "truncated"
    /\ out' = [err |-> "", file |-> call.ret.file]
    /\ phase' = "built"
    /\ UNCHANGED <<tbl, dir, db, call>>

\* the process is stopped between the open and the write, or the write ends
\* after the header
Interrupt ==
    /\ phase = "truncated"
    /\ \E file \in {NoFile, [call.ret.file EXCEPT !.size = headerSize]} :
          out' = [out EXCEPT !.file = file]
    /\ phase' = "interrupted"
    /\ UNCHANGED <<tbl, dir, db, call>>

NextWrite ==
    \/ \E f \in DOMAIN dir : CreateFile(f)
    \/ \E f \in DOMAIN dir, line \in CIDRsOfLen(0) \cup CIDRsOfLen(1) :
          AppendLine(f, line, MaxLines - 1)
    \/ BuildBytes
    \/ ReturnError
    \/ OpenTrunc
    \/ WriteBytes
    \/ Interrupt
    \/ EditAgain

SpecWrite == InitWrite /\ [][NextWrite]_vars

\* C17: from the start of Build on, the output path holds its previous
\* content or the complete new database, and the previous content when Build
\* fails.
C17_AtomicWrite ==
    phase \in {"writing", "truncated", "built", "failed", "interrupted"} =>
        IF call.ret.err = ""
        THEN out.file \in {call.prev, call.ret.file}
        ELSE out.file = call.prev


-----------------------------------------------------------------------------
(* SpecDense: detectDense on tables, sorted or not, whose intervals begin   *)
(* and end at the first, middle and last addresses                          *)

Marks == {0, 1, 2^(AddrBits - 1) - 1, 2^(AddrBits - 1), maxU32 - 1, maxU32}

MarkedTables ==
    UNION {[1..n -> {iv \in Marks \X Marks : iv[1] <= iv[2]}] : n \in 0..MaxN}

InitDense ==
    /\ phase = "raw"
    /\ tbl \in {TableOf(s) : s \in MarkedTables}
    /\ dir = <<>>
    /\ out = <<>>
    /\ db = <<>>
    /\ call = NoCall

DetectDense ==
    /\ phase = "raw"
    /\ tbl' = [tbl EXCEPT !.dense = detectDense(tbl)]
    /\ phase' = "detected"
    /\ UNCHANGED <<dir, out, db, call>>

SpecDense == InitDense /\ [][DetectDense]_vars

\* C21: detectDense sets dense exactly when the table is non-empty, starts at
\* 0, ends at the last address, and every end but the last is followed, without
\* wrap-around, by the next start.
C21_DenseExactly ==
    phase = "detected" =>
        (tbl.dense <=>
            /\ Len(tbl.starts) > 0
            /\ At(tbl.starts, 0) = 0
            /\ At(tbl.ends, Len(tbl.ends) - 1) = 2^AddrBits - 1
            /\ \A i \in 0..(Len(tbl.starts) - 2) :
                  At(tbl.ends, i) + 1 = At(tbl.starts, i + 1))

\* a tiling of two intervals is detected as dense
C21_Witness ==
    /\ phase = "detected"
    /\ Len(tbl.starts) = 2
    /\ tbl.dense


-----------------------------------------------------------------------------
(* SpecForms: a country file and a provider file hold CIDRs in both written *)
(* forms, then Build runs                                                   *)

FormFiles == {File("country", "CN"), File("isp", "aliyun")}

MappedCIDRs ==
    UNION {{MappedLine(ip, bits) : ip \in {a \in U32 : a % 2^(AddrBits - bits) = 0}}
           : bits \in 0..AddrBits}

InitForms ==
    /\ phase = "input"
    /\ tbl = NilTable
    /\ dir = EmptyDir(FormFiles)
    /\ out = <<>>
    /\ db = <<>>
    /\ call = NoCall

NextForms ==
    \/ \E f \in DOMAIN dir : CreateFile(f)
    \/ \E f \in DOMAIN dir, line \in AllCIDRs \cup MappedCIDRs :
          AppendLine(f, line, MaxLines - 1)
    \/ RunBuild

SpecForms == InitForms /\ [][NextForms]_vars

\* C23: every interval in a file that Build wrote has start <= end, whatever
\* the prefix length and the written form of the CIDRs read.
C23_StartLeEnd ==
    (phase = "built" /\ out.err = "")
    => \A k \in 0..3 : ValidIntervals(EmittedTable(out.file, k))


-----------------------------------------------------------------------------
(* SpecStrings: strings are interned, the pool is encoded and parsed, and    *)
(* str reads it back; out holds the interner, db the parsed views            *)

StringPool == {"", "CN", "US", "440000", "aliyun", "aliyun:zh"}

InitStrings ==
    /\ phase = "interning"
    /\ tbl = NilTable
    /\ dir = <<>>
    /\ out = [strs |-> <<>>]
    /\ db = <<>>
    /\ call = NoCall

\* stringInterner.intern(v)
Intern(v) ==
    /\ phase = "interning"
    /\ Len(intern(out.strs, v)) <= MaxN + 1
    /\ out' = [out EXCEPT !.strs = intern(out.strs, v)]
    /\ call' = [op |-> "intern", arg |-> v, before |-> out.strs,
                ret |-> internId(out.strs, v)]
    /\ UNCHANGED <<phase, tbl, dir, db>>

\* encode at build, parseStringsTable at open
EncodeAndParse ==
    /\ phase = "interning"
    /\ db' = parseStringsTable(encode(out.strs))
    /\ call' = NoCall
    /\ phase' = "parsed"
    /\ UNCHANGED <<tbl, dir, out>>

\* str(i) on the parsed views
Str(i) ==
    /\ phase = "parsed"
    /\ db.err = ""
    /\ call' = [op |-> "str", arg |-> i, on |-> db,
                ret |-> str([stringsData |-> db.data, stringsStart |-> db.start,
                             stringsEnd |-> db.end], i)]
    /\ UNCHANGED <<phase, tbl, dir, out, db>>

\* str(i) on views whose range for string i begins at lo and ends anywhere
StrOnRange(i, lo) ==
    /\ phase = "parsed"
    /\ db.err = ""
    /\ i < Len(db.start)
    /\ \E hi \in {0, 6, Len(db.data), Len(db.data) + 1} :
          call' = [op |-> "str", arg |-> i,
                   on |-> [db EXCEPT !.start[i + 1] = lo, !.end[i + 1] = hi],
                   ret |-> str([stringsData |-> db.data,
                                stringsStart |-> [db.start EXCEPT ![i + 1] = lo],
                                stringsEnd |-> [db.end EXCEPT ![i + 1] = hi]], i)]
    /\ UNCHANGED <<phase, tbl, dir, out, db>>

NextStrings ==
    \/ \E v \in StringPool : Intern(v)
    \/ EncodeAndParse
    \/ \E i \in 0..(MaxN + 2) : Str(i)
    \/ \E i \in 0..MaxN, lo \in {4, 6, 7} : StrOnRange(i, lo)

SpecStrings == InitStrings /\ [][NextStrings]_vars

\* C24: intern gives equal strings one id and distinct strings distinct ids;
\* after encode and parseStringsTable, str(id) is the interned string; str with
\* an index out of range, or over a range that is inverted or ends outside the
\* data, is the empty string.
C24_StringRoundTrip ==
    /\ \A i \in 1..Len(out.strs), j \in 1..Len(out.strs) :
          out.strs[i] = out.strs[j] => i = j
    /\ call.op = "intern" =>
          /\ At(out.strs, call.ret) = call.arg
          /\ SubSeq(out.strs, 1, Len(call.before)) = call.before
          /\ \A k \in 1..Len(call.before) : call.before[k] = call.arg => call.ret = k - 1
    /\ phase = "parsed" => db.err = ""
    /\ (call.op = "str" /\ call.on = db) =>
          call.ret = (IF call.arg < Len(out.strs) THEN At(out.strs, call.arg) ELSE "")
    /\ (call.op = "str" /\ call.arg < Len(call.on.start)
          /\ (\/ At(call.on.start, call.arg) > At(call.on.end, call.arg)
              \/ At(call.on.end, call.arg) > Len(call.on.data)))
       => call.ret = ""

\* the second of three strings is read back after an empty first one
C24_Witness ==
    /\ call.op = "str"
    /\ call.on = db
    /\ Len(out.strs) = 3
    /\ out.strs[1] = ""
    /\ call.arg = 1
    /\ call.ret = "aliyun:zh"

-----------------------------------------------------------------------------
(* SpecInto: the four lookups that write into a caller's destination, on a
   database the pipeline built and opened, with a fresh destination, one that
   holds an earlier answer, and a nil one *)

IntoAddrs == {AddrFrom4(bytesOf(0)), AddrFrom4(bytesOf(maxU32)), AddrV6}
IntoIPs == {0, maxU32}

IntoLookupAddrInto(addr, dst) ==
    /\ Opened
    /\ call' = [op |-> "LookupAddrInto", addr |-> addr,
                ip |-> IF Is4(addr) THEN packU32(addr.b) ELSE -1, given |-> dst,
                ret |-> LookupAddrInto(db, addr, dst)]
    /\ UNCHANGED <<phase, tbl, dir, out, db>>

IntoLookupAddrIDsInto(addr, dst) ==
    /\ Opened
    /\ call' = [op |-> "LookupAddrIDsInto", addr |-> addr,
                ip |-> IF Is4(addr) THEN packU32(addr.b) ELSE -1, given |-> dst,
                ret |-> LookupAddrIDsInto(db, addr, dst)]
    /\ UNCHANGED <<phase, tbl, dir, out, db>>

IntoLookupIPv4Uint32Into(ip, dst) ==
    /\ Opened
    /\ call' = [op |-> "LookupIPv4Uint32Into", addr |-> ZeroAddr, ip |-> ip,
                given |-> dst, ret |-> LookupIPv4Uint32Into(db, ip, dst)]
    /\ UNCHANGED <<phase, tbl, dir, out, db>>

IntoLookupIPv4Uint32IDsInto(ip, dst) ==
    /\ Opened
    /\ call' = [op |-> "LookupIPv4Uint32IDsInto", addr |-> ZeroAddr, ip |-> ip,
                given |-> dst, ret |-> LookupIPv4Uint32IDsInto(db, ip, dst)]
    /\ UNCHANGED <<phase, tbl, dir, out, db>>

NextInto ==
    \/ \E f \in PipelineFiles : \E line \in PipelineCIDRs(f) : WriteFile(f, line)
    \/ RunBuild
    \/ Open
    \/ \E addr \in IntoAddrs, dst \in Results \cup {NilDst} :
          IntoLookupAddrInto(addr, dst)
    \/ \E addr \in IntoAddrs, dst \in ResultsIDs \cup {NilDst} :
          IntoLookupAddrIDsInto(addr, dst)
    \/ \E ip \in IntoIPs, dst \in Results \cup {NilDst} :
          IntoLookupIPv4Uint32Into(ip, dst)
    \/ \E ip \in IntoIPs, dst \in ResultsIDs \cup {NilDst} :
          IntoLookupIPv4Uint32IDsInto(ip, dst)
    \/ Return

SpecInto == Init /\ [][NextInto]_vars

\* what the call must leave in a destination of the full kind: the address it
\* was given, and for each table the strings of its hit or empty strings
FullOfCall ==
    LET v == db.v4
        c == lookup(v.country, call.ip)
        city == lookup(v.cnCity, call.ip)
        prov == lookup(v.cnProv, call.ip)
        p == lookup(v.provider, call.ip)
    IN [IP |-> call.addr,
        CountryCode |-> IF c[2] THEN countryLabel(v, c[1]).code ELSE "",
        CountryName |-> IF c[2] THEN countryLabel(v, c[1]).name ELSE "",
        CNCityCode |-> IF city[2] THEN cnLabel(v, city[1]).code ELSE "",
        CNCityName |-> IF city[2] THEN cnLabel(v, city[1]).name ELSE "",
        CNProvinceCode |-> IF ~city[2] /\ prov[2] THEN cnLabel(v, prov[1]).code ELSE "",
        CNProvinceName |-> IF ~city[2] /\ prov[2] THEN cnLabel(v, prov[1]).name ELSE "",
        ProviderKey |-> IF p[2] THEN providerLabel(v, p[1]).key ELSE "",
        ProviderName |-> IF p[2] THEN providerLabel(v, p[1]).name ELSE "",
        ProviderKind |-> IF p[2] THEN providerLabel(v, p[1]).kind
                         ELSE ProviderKindUnknown]

IDsOfCall ==
    LET v == db.v4
        c == lookup(v.country, call.ip)
        city == lookup(v.cnCity, call.ip)
        prov == lookup(v.cnProv, call.ip)
        p == lookup(v.provider, call.ip)
    IN [IP |-> call.addr,
        CountryID |-> IF c[2] THEN c[1] ELSE IDNone,
        CNCityID |-> IF city[2] THEN city[1] ELSE IDNone,
        CNProvinceID |-> IF ~city[2] /\ prov[2] THEN prov[1] ELSE IDNone,
        ProviderID |-> IF p[2] THEN p[1] ELSE IDNone,
        ProviderKind |-> IF p[2] /\ p[1] < Len(v.providerLabels)
                         THEN At(v.providerLabels, p[1]).Kind
                         ELSE ProviderKindUnknown]

\* C27: after an Into lookup the destination holds only values of this call:
\* the strings or IDs of the tables that hit, and empty strings, IDNone and
\* kind Unknown for the tables that missed, whatever the destination held
\* before; on ErrUnsupportedIP it is cleared entirely; a nil destination
\* gives ErrNilResult.
C27_IntoOverwrites ==
    (phase = "open" /\ call.op \in LookupOps)
    => IF call.given = NilDst
       THEN call.ret.err = "ErrNilResult" /\ ~call.ret.matched
       ELSE IF call.ip = -1
       THEN /\ call.ret.err = "ErrUnsupportedIP"
            /\ ~call.ret.matched
            /\ call.ret.dst = IF call.op \in FullOps
                               THEN [ZeroResult EXCEPT !.ProviderKind = ProviderKindUnknown]
                               ELSE [IP |-> ZeroAddr, CountryID |-> IDNone,
                                     CNProvinceID |-> IDNone, CNCityID |-> IDNone,
                                     ProviderID |-> IDNone,
                                     ProviderKind |-> ProviderKindUnknown]
       ELSE /\ call.ret.err = ""
            /\ call.ret.dst = IF call.op \in FullOps THEN FullOfCall ELSE IDsOfCall

\* a destination that held an earlier answer comes back from a lookup that
\* hit the country table only
C27_Witness ==
    /\ phase = "open"
    /\ call.op = "LookupIPv4Uint32Into"
    /\ call.given = UsedResult
    /\ call.ret.matched
    /\ call.ret.dst.CountryCode = "CN"
    /\ call.ret.dst.ProviderKey = ""
    /\ call.ret.dst.CNCityCode = ""
-----------------------------------------------------------------------------
(* SpecSearch: one table of a file that Open accepts, its starts in any order,
   indexed as Open indexes it, then searched both ways *)

SearchMarks == {0, 1, maxU32}
SearchLen == MaxN + 1

\* tables of up to SearchLen intervals, sorted or not
SearchTables ==
    UNION {[1..n -> {iv \in SearchMarks \X SearchMarks : iv[1] <= iv[2]}]
           : n \in 0..SearchLen}

InitSearch ==
    /\ phase = "raw"
    /\ tbl \in {TableOf(s) : s \in SearchTables}
    /\ dir = <<>>
    /\ out = <<>>
    /\ db = <<>>
    /\ call = NoCall

\* lookup(ip), with the window it searched, the indices it read, and what
\* each of its two branches gives on that window
Search(ip) ==
    /\ phase = "ready"
    /\ call' = [op |-> "search", arg |-> ip, ret |-> lookup(tbl, ip),
                window |-> window(tbl, ip), reads |-> lookupReads(tbl, ip),
                linear |-> IF window(tbl, ip)[1] < window(tbl, ip)[2]
                           THEN linearBranch(tbl, window(tbl, ip)[1],
                                             window(tbl, ip)[2], ip)
                           ELSE <<0, FALSE>>,
                binary |-> IF window(tbl, ip)[1] < window(tbl, ip)[2]
                           THEN binaryBranch(tbl, window(tbl, ip)[1],
                                             window(tbl, ip)[2], ip)
                           ELSE <<0, FALSE>>]
    /\ UNCHANGED <<phase, tbl, dir, out, db>>

NextSearch ==
    \/ OpenTable
    \/ \E ip \in U32 : Search(ip)

SpecSearch == InitSearch /\ [][NextSearch]_vars

\* C28: for every table, every window the bucket arrays give and every ip, the
\* descending linear scan and the binary search return the same (label, hit).
C28_SameResultAnyTable ==
    call.op = "search" => call.linear = call.binary

\* C28 as amended: on a table whose starts are in non-decreasing order, for
\* every window the bucket arrays give and every ip, the descending linear scan
\* and the binary search return the same (label, hit).
C28_SameResultSorted ==
    (call.op = "search" /\ SortedByStart(tbl)) => call.linear = call.binary

\* both branches hit on a sorted window of three entries, on the start of one
C28_Witness ==
    /\ call.op = "search"
    /\ SortedByStart(tbl)
    /\ call.window = <<0, 3>>
    /\ \E i \in Idx(tbl) : At(tbl.starts, i) = call.arg
    /\ call.linear[2]
    /\ call.binary[2]

\* C29: for every table Open accepts, sorted or not, and every address, the
\* bucket index is below the number of buckets, the window lies in [0, n],
\* and every index lookup reads from starts, ends and labels lies in [0, n).
C29_ReadsInBounds ==
    call.op = "search"
    => /\ Shr(call.arg, BucketShift) \in 0..(size - 1)
       /\ Len(tbl.starts) > 0
            => /\ Len(tbl.bucketLo16) = size
               /\ Len(tbl.bucketHi16) = size
               /\ 0 <= call.window[1]
               /\ call.window[2] <= Len(tbl.starts)
       /\ call.reads \subseteq 0..(Len(tbl.starts) - 1)

\* a lookup on an unsorted table that read more than one index and hit
C29_Witness ==
    /\ call.op = "search"
    /\ ~SortedByStart(tbl)
    /\ \E i \in call.reads, j \in call.reads : i # j
    /\ call.ret[2]
====
